---- MODULE Spec2Model ----
(***************************************************************************)
(* Move-search core of the forced-capture chess engine: the forced-capture *)
(* move filter, the evaluator's terminal handling, move ordering,          *)
(* quiescence search, alpha-beta, the iterative-deepening driver, the      *)
(* TranspositionTable class and the minimax/Transposition_Table draft.     *)
(*                                                                         *)
(* The python-chess Board is an external library.  It is represented by a  *)
(* family of finite game trees indexed by `game`: a board is the stack of  *)
(* moves played from the root of the tree (chess.Board.move_stack), and    *)
(* every query the engine makes of a board (legal moves, is_capture,       *)
(* is_check, ...) is a function of the game and of that stack.             *)
(***************************************************************************)
EXTENDS Integers, Sequences, FiniteSets, TLC

VARIABLES
    game,        \* which game tree the board belongs to (the root position)
    board,       \* chess.Board: the move stack from the root
    stack,       \* call stack of the search: alpha_beta / quiescence_search frames
    ret,         \* value returned by the call that finished last
    id,          \* local variables and position of iterative_deepening
    searcher,    \* ChessSearcher fields: stop_search, time_limit, start_time, stats;
                 \* observed is the height of the call stack when should_stop() first
                 \* returned true to alpha_beta or quiescence_search in this search, or 0
    now,         \* time.time()
    pcall,       \* the last call of a pure function: its arguments and result
    tt,          \* TranspositionTable object
    ttcall,      \* the last TranspositionTable call: arguments, result, table before
    TT,          \* module-level Transposition_Table of src/search.py
    mmcall,      \* the last minimax call: arguments and result
    engine       \* ForcedCaptureEngine fields, and its position in make_move

vars == <<game, board, stack, ret, id, searcher, now, pcall, tt, ttcall, TT, mmcall, engine>>

-----------------------------------------------------------------------------
(* Bounds of the model *)

\* plies from the start of a game after which every move is quiet
\* (no capture, no check), so that quiescence search ends
MaxPly == 3
\* largest number of legal moves in a position
MaxBranch == 2
\* number of game trees
NumGames == 12
\* plies of captures in the games of CaptureRuns
RunPly == 20
\* ply at which the material balance turns in the games of CaptureRuns
RunTurn == 13

-----------------------------------------------------------------------------
(* Python values *)

\* None, for Optional[chess.Move]; the moves of a position are 1, 2, ...
None == 0

WHITE == TRUE
BLACK == FALSE

PAWN == 1
KNIGHT == 2
BISHOP == 3
ROOK == 4
QUEEN == 5
KING == 6

PIECE_VALUES == <<100, 320, 330, 500, 900, 20000>>

\* -999999 and 999999, the maximal window of the search
INF == 999999

Front(s) == SubSeq(s, 1, Len(s) - 1)
Last(s) == s[Len(s)]
Max(a, b) == IF a >= b THEN a ELSE b
Min(a, b) == IF a <= b THEN a ELSE b

-----------------------------------------------------------------------------
(* chess.Board: the game trees *)

\* game trees with a mate one ply and three plies from the root, a mating capture next
\* to another capture, a mating capture in a drawn position, and a mating capture next
\* to a capture that mates two plies later
MateGames == {3075, 93, 148, 95331}

Games == (0 .. (NumGames - 1)) \cup MateGames

\* a game tree in which every position has one legal move, a capture that gives no
\* check, for RunPly plies and a quiet move after that; Black is a pawn's worth ahead
\* before ply RunTurn and White two pawns' worth from then on, and no position is drawn
CaptureRuns == {20000}
\* the position is one of a game in CaptureRuns
Run == game \in CaptureRuns

RECURSIVE Code(_)
\* a number identifying the position reached by move stack p
Code(p) == IF p = <<>> THEN 0 ELSE (Code(Front(p)) * (MaxBranch + 1)) + Last(p)

RECURSIVE Hash(_, _)
\* a pseudo-random number in 0..65536 for position p of game g
Hash(g, p) ==
    IF p = <<>> THEN ((g * 7919) + 20011) % 65537
    ELSE ((Hash(g, Front(p)) * 75) + 74 + (Last(p) * 1237)) % 65537

\* feature `salt` of position p in game g, a number in 0..100
Mix(g, p, salt) ==
    ((((Hash(g, p) * ((2 * salt) + 1) * 131) + (salt * 7789)) % 65537) \div 7) % 101

\* board.turn
turn(b) == IF (game + Len(b)) % 2 = 0 THEN WHITE ELSE BLACK

\* list(board.legal_moves)
legal_moves(b) ==
    LET n == IF Run THEN 1
             ELSE IF Mix(game, b, 1) % 9 = 0 THEN 0
             ELSE IF Mix(game, b, 2) % 3 # 0 THEN MaxBranch ELSE 1
    IN  [m \in 1 .. n |-> m]

push(b, m) == Append(b, m)
pop(b) == Front(b)

\* board.is_capture(move)
is_capture(b, m) ==
    IF Run THEN Len(b) < RunPly
    ELSE Len(b) < MaxPly /\ Mix(game, push(b, m), 3) % 3 = 0

\* board.piece_at(move.to_square).piece_type, None for an en passant capture
victim_type(b, m) == Mix(game, push(b, m), 4) % 6

\* board.piece_at(move.from_square).piece_type
attacker_type(b, m) == IF victim_type(b, m) = None THEN PAWN ELSE 1 + (Mix(game, push(b, m), 5) % 6)

\* move.promotion
promotion(b, m) == IF Mix(game, push(b, m), 6) % 7 = 0 THEN QUEEN ELSE None

is_check(b) == ~Run /\ Len(b) <= MaxPly /\ Mix(game, b, 7) % 4 = 0
is_checkmate(b) == is_check(b) /\ legal_moves(b) = <<>>
is_stalemate(b) == ~is_check(b) /\ legal_moves(b) = <<>>
is_insufficient_material(b) == ~Run /\ Mix(game, b, 8) % 23 = 0
can_claim_draw(b) == ~Run /\ Mix(game, b, 9) % 19 = 0
is_game_over(b) == is_checkmate(b) \/ is_stalemate(b) \/ is_insufficient_material(b)

\* slots of Transposition_Table
TTSize == 100000
\* number of slots of Transposition_Table that positions fall into
SlotClasses == 5

\* chess.polyglot.zobrist_hash(board): one key for each position, and several positions
\* for each slot of Transposition_Table
zobrist_hash(b) == (Code(b) % SlotClasses) + (TTSize * Code(b))

-----------------------------------------------------------------------------
(* forced_capture.py, forced_chess.py *)

\* the filter left out: every legal move is returned
get_legal_moves_unfiltered(b) == legal_moves(b)

get_legal_moves_with_forced_capture(b) ==
    LET all_legal_moves == legal_moves(b)
        IsCap(m) == is_capture(b, m)
        capturing_moves == SelectSeq(all_legal_moves, IsCap)
    IN  IF capturing_moves # <<>> THEN capturing_moves ELSE all_legal_moves

forced_legal_moves(b) ==
    LET legal == legal_moves(b)
        IsCap(m) == is_capture(b, m)
        captures == SelectSeq(legal, IsCap)
    IN  IF captures # <<>> THEN captures ELSE legal

-----------------------------------------------------------------------------
(* evaluate.py *)

\* material + positional // 10 + exposure + king safety + tactical // 5 of the
\* piece placement, White-relative
total_score(b) ==
    IF Run THEN (IF Len(b) < RunTurn THEN -PIECE_VALUES[PAWN] ELSE 2 * PIECE_VALUES[PAWN])
    ELSE ((Mix(game, b, 10) % 9) - 4) * 50

evaluate(b) ==
    IF is_checkmate(b) THEN (IF turn(b) = WHITE THEN -30000 ELSE 30000)
    ELSE IF is_stalemate(b) \/ is_insufficient_material(b) THEN 0
    ELSE IF can_claim_draw(b) THEN 0
    ELSE total_score(b)

-----------------------------------------------------------------------------
(* search.py: ChessSearcher.order_moves *)

\* quiescence search has no floor
QDepthFloor_none == -INF

\* the floor of the quiescence depth
QDepthFloor == -10
\* the checkmate score and its depth offset
MATE == 30000
MateBias == 100
\* no score announces a forced mate
MateThreshold_never == INF

\* scores above this announce a forced mate
MateThreshold == 29000

PieceValue(t) == IF t \in 1 .. Len(PIECE_VALUES) THEN PIECE_VALUES[t] ELSE 0

move_score(b, move, pv_move) ==
    IF pv_move # None /\ move = pv_move THEN 1000000
    ELSE LET victim == victim_type(b, move)
             attacker == attacker_type(b, move)
             victim_value == IF victim # None THEN PieceValue(victim) ELSE PIECE_VALUES[PAWN]
             attacker_value == PieceValue(attacker)
             capture == IF is_capture(b, move)
                        THEN 10000 + victim_value - (attacker_value \div 10) ELSE 0
             check == IF is_check(push(b, move)) THEN 5000 ELSE 0
             promo == IF promotion(b, move) # None THEN 8000 ELSE 0
         IN  capture + check + promo

\* board.pop() left out after the test for check
board_after_move_score_no_pop(b, move, pv_move) ==
    IF pv_move # None /\ move = pv_move THEN b ELSE push(b, move)

\* the board as move_score leaves it: the move is pushed, tested for check, popped
board_after_move_score(b, move, pv_move) ==
    IF pv_move # None /\ move = pv_move THEN b ELSE pop(push(b, move))

RECURSIVE board_after_order_moves(_, _, _)
\* the board as order_moves leaves it, after the key of every move was computed
board_after_order_moves(b, moves, pv_move) ==
    IF moves = <<>> THEN b
    ELSE board_after_order_moves(board_after_move_score(b, moves[1], pv_move), Tail(moves), pv_move)

RECURSIVE InsertDesc(_, _, _, _)
\* x put into the descending list s behind every element whose key is >= its own
InsertDesc(s, x, b, pv_move) ==
    IF s = <<>> THEN <<x>>
    ELSE IF move_score(b, s[1], pv_move) >= move_score(b, x, pv_move)
         THEN <<s[1]>> \o InsertDesc(Tail(s), x, b, pv_move)
         ELSE <<x>> \o s

RECURSIVE SortedDesc(_, _, _, _)
\* sorted(moves, key=move_score, reverse=True): stable, highest key first
SortedDesc(done, moves, b, pv_move) ==
    IF moves = <<>> THEN done
    ELSE SortedDesc(InsertDesc(done, moves[1], b, pv_move), Tail(moves), b, pv_move)

order_moves(b, moves, pv_move) == SortedDesc(<<>>, moves, b, pv_move)

-----------------------------------------------------------------------------
(* search.py: ChessSearcher.quiescence_search and alpha_beta, one node at a time *)

Return(score) == [kind |-> "return", score |-> score, alpha |-> 0, moves |-> <<>>]

\* every move is taken for a tactical move
tactical_moves_all(b) == get_legal_moves_with_forced_capture(b)

\* the tactical moves of quiescence_search: captures and checking moves
tactical_moves(b) ==
    LET IsTactical(m) == is_capture(b, m) \/ is_check(push(b, m))
    IN  SelectSeq(get_legal_moves_with_forced_capture(b), IsTactical)

\* quiescence_search from the stand-pat score to the start of its loop
qs_entry(b, alpha, beta, depth_left) ==
    LET stand_pat == evaluate(b)
        alpha1 == IF stand_pat > alpha THEN stand_pat ELSE alpha
    IN  IF stand_pat >= beta THEN Return(beta)
        ELSE IF depth_left < QDepthFloor THEN Return(stand_pat)
        ELSE IF tactical_moves(b) = <<>> THEN Return(stand_pat)
        ELSE [kind |-> "loop", score |-> stand_pat, alpha |-> alpha1,
              moves |-> order_moves(b, tactical_moves(b), None)]

\* a cutoff returns the score of the child in place of beta
qs_update_fail_soft(alpha, beta, score) ==
    IF score >= beta THEN [done |-> TRUE, alpha |-> score]
    ELSE [done |-> FALSE, alpha |-> IF score > alpha THEN score ELSE alpha]

\* the body of the loop of quiescence_search once the child returned `score`
qs_update(alpha, beta, score) ==
    IF score >= beta THEN [done |-> TRUE, alpha |-> beta]
    ELSE [done |-> FALSE, alpha |-> IF score > alpha THEN score ELSE alpha]

\* a mate found with more depth left scores lower for the winner
mate_score_later_is_better(depth) == (-MATE) + (MateBias + depth)

\* the score alpha_beta gives a checkmated side to move
mate_score(depth) == (-MATE) + (MateBias - depth)

\* the moves taken from board.legal_moves, without the forced-capture filter
ab_entry_all_legal(b, depth, alpha, beta, pv_move) ==
    IF is_checkmate(b) THEN Return(mate_score(depth))
    ELSE IF is_stalemate(b) \/ is_insufficient_material(b) \/ can_claim_draw(b) THEN Return(0)
    ELSE IF depth <= 0 THEN [kind |-> "quiesce", score |-> 0, alpha |-> alpha, moves |-> <<>>]
    ELSE IF legal_moves(b) = <<>>
         THEN (IF is_check(b) THEN Return(mate_score(depth)) ELSE Return(0))
         ELSE [kind |-> "loop", score |-> 0, alpha |-> alpha,
               moves |-> order_moves(b, legal_moves(b), pv_move)]

\* alpha_beta from the terminal tests to the start of its loop
ab_entry(b, depth, alpha, beta, pv_move) ==
    IF is_checkmate(b) THEN Return(mate_score(depth))
    ELSE IF is_stalemate(b) \/ is_insufficient_material(b) \/ can_claim_draw(b) THEN Return(0)
    ELSE IF depth <= 0 THEN [kind |-> "quiesce", score |-> 0, alpha |-> alpha, moves |-> <<>>]
    ELSE LET moves == get_legal_moves_with_forced_capture(b)
         IN  IF moves = <<>>
             THEN (IF is_check(b) THEN Return(mate_score(depth)) ELSE Return(0))
             ELSE [kind |-> "loop", score |-> 0, alpha |-> alpha,
                   moves |-> order_moves(b, moves, pv_move)]

\* alpha is not raised by a better score
ab_update_alpha_kept(alpha, beta, best_score, best_move, move, score) ==
    LET bs == IF score > best_score THEN score ELSE best_score
        bm == IF score > best_score THEN move ELSE best_move
    IN  IF score >= beta
        THEN [done |-> TRUE, alpha |-> beta, best_score |-> bs, best_move |-> bm, raised |-> FALSE]
        ELSE [done |-> FALSE, alpha |-> alpha, best_score |-> bs, best_move |-> bm,
              raised |-> FALSE]

\* the body of the loop of alpha_beta once the child returned and was negated to `score`
ab_update(alpha, beta, best_score, best_move, move, score) ==
    LET bs == IF score > best_score THEN score ELSE best_score
        bm == IF score > best_score THEN move ELSE best_move
    IN  IF score >= beta
        THEN [done |-> TRUE, alpha |-> beta, best_score |-> bs, best_move |-> bm, raised |-> FALSE]
        ELSE [done |-> FALSE, alpha |-> IF score > alpha THEN score ELSE alpha,
              best_score |-> bs, best_move |-> bm, raised |-> score > alpha]

-----------------------------------------------------------------------------
(* search.py: the searches run to completion with should_stop() false throughout *)

RECURSIVE quiescence_search(_, _, _, _)
RECURSIVE qs_loop(_, _, _, _, _, _)
RECURSIVE alpha_beta(_, _, _, _, _)
RECURSIVE ab_loop(_, _, _, _, _, _, _, _)

quiescence_search(b, alpha, beta, depth_left) ==
    LET e == qs_entry(b, alpha, beta, depth_left)
    IN  IF e.kind = "return" THEN e.score
        ELSE qs_loop(b, e.alpha, beta, depth_left, e.moves, 1)

qs_loop(b, alpha, beta, depth_left, moves, i) ==
    IF i > Len(moves) THEN alpha
    ELSE LET score == -quiescence_search(push(b, moves[i]), -beta, -alpha, depth_left - 1)
             u == qs_update(alpha, beta, score)
         IN  IF u.done THEN u.alpha ELSE qs_loop(b, u.alpha, beta, depth_left, moves, i + 1)

RECURSIVE qsearch_nodes(_, _, _, _)
RECURSIVE qs_loop_nodes(_, _, _, _, _, _)

\* stats.qsearch_nodes after quiescence_search: the calls made, this one included
qsearch_nodes(b, alpha, beta, depth_left) ==
    LET e == qs_entry(b, alpha, beta, depth_left)
    IN  IF e.kind = "return" THEN 1
        ELSE 1 + qs_loop_nodes(b, e.alpha, beta, depth_left, e.moves, 1)

qs_loop_nodes(b, alpha, beta, depth_left, moves, i) ==
    IF i > Len(moves) THEN 0
    ELSE LET child == push(b, moves[i])
             score == -quiescence_search(child, -beta, -alpha, depth_left - 1)
             u == qs_update(alpha, beta, score)
         IN  qsearch_nodes(child, -beta, -alpha, depth_left - 1)
                 + (IF u.done THEN 0
                    ELSE qs_loop_nodes(b, u.alpha, beta, depth_left, moves, i + 1))

\* a drawn position that is not a stalemate is searched like any other
alpha_beta_draws_searched(b, depth, alpha, beta, pv_move) ==
    LET moves == get_legal_moves_with_forced_capture(b)
    IN  IF is_checkmate(b) THEN [score |-> mate_score(depth), move |-> None]
        ELSE IF is_stalemate(b) THEN [score |-> 0, move |-> None]
        ELSE IF depth <= 0
        THEN [score |-> quiescence_search(b, alpha, beta, 0), move |-> None]
        ELSE IF moves = <<>>
        THEN [score |-> IF is_check(b) THEN mate_score(depth) ELSE 0, move |-> None]
        ELSE ab_loop(b, depth, alpha, beta, -INF, None, order_moves(b, moves, pv_move), 1)

alpha_beta(b, depth, alpha, beta, pv_move) ==
    LET e == ab_entry(b, depth, alpha, beta, pv_move)
    IN  IF e.kind = "return" THEN [score |-> e.score, move |-> None]
        ELSE IF e.kind = "quiesce"
        THEN [score |-> quiescence_search(b, alpha, beta, 0), move |-> None]
        ELSE ab_loop(b, depth, alpha, beta, -INF, None, e.moves, 1)

ab_loop(b, depth, alpha, beta, best_score, best_move, moves, i) ==
    IF i > Len(moves) THEN [score |-> alpha, move |-> best_move]
    ELSE LET child == alpha_beta(push(b, moves[i]), depth - 1, -beta, -alpha, None)
             u == ab_update(alpha, beta, best_score, best_move, moves[i], -child.score)
         IN  IF u.done THEN [score |-> u.alpha, move |-> u.best_move]
             ELSE ab_loop(b, depth, u.alpha, beta, u.best_score, u.best_move, moves, i + 1)

-----------------------------------------------------------------------------
(* search.py: ChessSearcher as a machine, one step per node entry, loop turn
   and return, so that the stop condition can become true between any two *)

\* deepest iteration the driver is followed to
MaxDepth == 2
\* number of readings of the clock that a search is followed for
MaxTime == 2
\* max_depth of a search under a time limit
DefaultMaxDepth == 50

\* Optional[float]: <<>> is None, <<v>> is the value v
NoValue == <<>>
Some(v) == <<v>>
Truthy(o) == o # NoValue /\ o[1] # 0

NoRet == [score |-> 0, move |-> None]

StatsReset == [nodes_searched |-> 0, alpha_cutoffs |-> 0, beta_cutoffs |-> 0, qsearch_nodes |-> 0]

\* ChessSearcher.__init__
SearcherInit == [stop_search |-> FALSE, time_limit |-> NoValue, start_time |-> NoValue,
                 stats |-> StatsReset, observed |-> 0]

\* the locals of iterative_deepening; depth 0 stands for the unbound loop variable,
\* clean records the deepest iteration that ended with the stop condition still false,
\* and budget the time_limit argument of the call that started the search
IdIdle == [pc |-> "idle", depth |-> 0, next |-> 1, max_depth |-> 0, best_move |-> None,
           best_score |-> 0, pv |-> <<>>, score |-> 0, move |-> None, entry |-> <<>>,
           clean |-> 0, result |-> <<>>, budget |-> <<>>]

should_stop ==
    \/ searcher.stop_search
    \/ /\ Truthy(searcher.time_limit)
       /\ Truthy(searcher.start_time)
       /\ now - searcher.start_time[1] >= searcher.time_limit[1]

Frame(fn, depth, alpha, beta, pv_move) ==
    [fn |-> fn, pc |-> "entry", depth |-> depth, alpha |-> alpha, beta |-> beta,
     pv_move |-> pv_move, moves |-> <<>>, i |-> 1, best_move |-> None, best_score |-> -INF,
     entry |-> board]

Top == stack[Len(stack)]
Running(fn, pc) == stack # <<>> /\ Top.fn = fn /\ Top.pc = pc
ReplaceTop(f) == [stack EXCEPT ![Len(stack)] = f]

\* the running call returns `value` to its caller
ReturnTo(value) == /\ stack' = Front(stack)
                   /\ ret' = value

Bump(field) == [searcher EXCEPT !.stats[field] = @ + 1]

\* the entry of alpha_beta and quiescence_search: the node is counted and should_stop()
\* is called
Entered(field) ==
    [Bump(field) EXCEPT !.observed = IF @ = 0 /\ should_stop THEN Len(stack) ELSE @]

\* the board as the scan for tactical moves leaves it: a non-capture is pushed, tested, popped
RECURSIVE board_after_tactical_scan(_, _)
board_after_tactical_scan(b, moves) ==
    IF moves = <<>> THEN b
    ELSE board_after_tactical_scan(
             IF is_capture(b, moves[1]) THEN b ELSE pop(push(b, moves[1])), Tail(moves))

\* iterative_deepening on board b, lines 358-365
Started(b, max_depth, time_limit, budget) ==
    /\ searcher' = [stop_search |-> FALSE, time_limit |-> time_limit, start_time |-> Some(now),
                    stats |-> StatsReset, observed |-> 0]
    /\ id' = [IdIdle EXCEPT !.pc = "loop", !.max_depth = max_depth, !.entry = b,
                            !.budget = budget]

\* ChessSearcher.search on board b, lines 441-444
search(b, depth, time_limit) ==
    IF Truthy(time_limit)
    THEN Started(b, DefaultMaxDepth, time_limit, time_limit)
    ELSE Started(b, depth, NoValue, time_limit)

StartDeepening(max_depth, time_limit, budget) ==
    /\ id.pc = "idle"
    /\ Started(board, max_depth, time_limit, budget)
    /\ UNCHANGED <<game, board, stack, ret, now, pcall, tt, ttcall, TT, mmcall, engine>>

TimeLimits == {NoValue, Some(-1), Some(0), Some(1)}

\* ChessSearcher.search called directly
Search ==
    /\ id.pc = "idle"
    /\ \E depth \in 0 .. MaxDepth, time_limit \in TimeLimits : search(board, depth, time_limit)
    /\ UNCHANGED <<game, board, stack, ret, now, pcall, tt, ttcall, TT, mmcall, engine>>

\* ChessSearcher.iterative_deepening called directly
IterativeDeepening ==
    \E max_depth \in 0 .. MaxDepth, time_limit \in TimeLimits :
        StartDeepening(max_depth, time_limit, time_limit)

\* the return statement of iterative_deepening; `depth` is unbound when the loop never ran
Finish(d) ==
    IF d.depth = 0
    THEN [d EXCEPT !.pc = "raised"]
    ELSE [d EXCEPT !.pc = "done",
                   !.result = <<[best_move |-> d.best_move, score |-> d.best_score,
                                 depth |-> d.depth,
                                 nodes_searched |-> searcher.stats.nodes_searched,
                                 time_taken |-> now - searcher.start_time[1],
                                 pv |-> d.pv]>>]

\* the head of the loop over depths: leave, break on the stop condition, or search
DeepeningLoop ==
    /\ id.pc = "loop"
    /\ id.next <= MaxDepth + 1
    /\ IF id.next > id.max_depth
       THEN /\ id' = Finish(id)
            /\ UNCHANGED stack
       ELSE IF should_stop
       THEN /\ id' = Finish([id EXCEPT !.depth = id.next])
            /\ UNCHANGED stack
       ELSE /\ id.next <= MaxDepth
            /\ id' = [id EXCEPT !.depth = id.next, !.pc = "await"]
            /\ stack' = <<Frame("alpha_beta", id.next, -INF, INF, id.best_move)>>
    /\ UNCHANGED <<game, board, ret, searcher, now, pcall, tt, ttcall, TT, mmcall, engine>>

Abs(x) == IF x < 0 THEN -x ELSE x

\* the rest of the loop body once alpha_beta returned, lines 376-397
DeepeningAdopt ==
    /\ id.pc = "await"
    /\ stack = <<>>
    /\ LET adopt == ~should_stop /\ ret.move # None
           d == [id EXCEPT !.score = ret.score, !.move = ret.move,
                           !.clean = IF should_stop THEN @ ELSE id.depth,
                           !.best_move = IF adopt THEN ret.move ELSE @,
                           !.best_score = IF adopt THEN ret.score ELSE @,
                           !.pv = IF adopt THEN <<ret.move>> ELSE @]
       IN  IF Abs(ret.score) > MateThreshold
           THEN id' = Finish(d)
           ELSE id' = [d EXCEPT !.pc = "loop", !.next = d.depth + 1]
    /\ UNCHANGED <<game, board, stack, ret, searcher, now, pcall, tt, ttcall, TT, mmcall, engine>>

\* alpha_beta does not call should_stop() at its entry
AlphaBetaEntry_unchecked ==
    /\ Running("alpha_beta", "entry")
    /\ searcher' = Entered("nodes_searched")
    /\ LET f == Top
           e == ab_entry(board, f.depth, f.alpha, f.beta, f.pv_move)
       IN  IF e.kind = "return"
           THEN ReturnTo([score |-> e.score, move |-> None]) /\ UNCHANGED board
           ELSE IF e.kind = "quiesce"
           THEN /\ stack' = Append(ReplaceTop([f EXCEPT !.pc = "quiesce"]),
                                   Frame("quiescence_search", 0, f.alpha, f.beta, None))
                /\ UNCHANGED <<board, ret>>
           ELSE /\ stack' = ReplaceTop([f EXCEPT !.pc = "loop", !.moves = e.moves])
                /\ board' = board_after_order_moves(
                                board, get_legal_moves_with_forced_capture(board), f.pv_move)
                /\ UNCHANGED ret
    /\ UNCHANGED <<game, id, now, pcall, tt, ttcall, TT, mmcall, engine>>

\* alpha_beta from its entry to the start of its loop, lines 274-305
AlphaBetaEntry ==
    /\ Running("alpha_beta", "entry")
    /\ searcher' = Entered("nodes_searched")
    /\ LET f == Top
           e == ab_entry(board, f.depth, f.alpha, f.beta, f.pv_move)
       IN  IF should_stop
           THEN ReturnTo([score |-> 0, move |-> None]) /\ UNCHANGED board
           ELSE IF e.kind = "return"
           THEN ReturnTo([score |-> e.score, move |-> None]) /\ UNCHANGED board
           ELSE IF e.kind = "quiesce"
           THEN /\ stack' = Append(ReplaceTop([f EXCEPT !.pc = "quiesce"]),
                                   Frame("quiescence_search", 0, f.alpha, f.beta, None))
                /\ UNCHANGED <<board, ret>>
           ELSE /\ stack' = ReplaceTop([f EXCEPT !.pc = "loop", !.moves = e.moves])
                /\ board' = board_after_order_moves(
                                board, get_legal_moves_with_forced_capture(board), f.pv_move)
                /\ UNCHANGED ret
    /\ UNCHANGED <<game, id, now, pcall, tt, ttcall, TT, mmcall, engine>>

\* alpha_beta: the value of quiescence_search is returned, line 290
AlphaBetaHorizon ==
    /\ Running("alpha_beta", "quiesce")
    /\ ReturnTo([score |-> ret.score, move |-> None])
    /\ UNCHANGED <<game, board, id, searcher, now, pcall, tt, ttcall, TT, mmcall, engine>>

\* alpha_beta: the next move is applied and searched, or the loop ends, lines 307-311 and 330
AlphaBetaLoop ==
    /\ Running("alpha_beta", "loop")
    /\ LET f == Top
       IN  IF f.i > Len(f.moves)
           THEN ReturnTo([score |-> f.alpha, move |-> f.best_move]) /\ UNCHANGED board
           ELSE /\ board' = push(board, f.moves[f.i])
                /\ stack' = Append(ReplaceTop([f EXCEPT !.pc = "await"]),
                                   [Frame("alpha_beta", f.depth - 1, -f.beta, -f.alpha, None)
                                       EXCEPT !.entry = board'])
                /\ UNCHANGED ret
    /\ UNCHANGED <<game, id, searcher, now, pcall, tt, ttcall, TT, mmcall, engine>>

\* alpha_beta: the child returned; the move is undone and the score used, lines 312-328
AlphaBetaResume ==
    /\ Running("alpha_beta", "await")
    /\ LET f == Top
           u == ab_update(f.alpha, f.beta, f.best_score, f.best_move, f.moves[f.i], -ret.score)
       IN  /\ board' = pop(board)
           /\ IF u.done
              THEN /\ searcher' = Bump("beta_cutoffs")
                   /\ ReturnTo([score |-> u.alpha, move |-> u.best_move])
              ELSE /\ searcher' = IF u.raised THEN Bump("alpha_cutoffs") ELSE searcher
                   /\ stack' = ReplaceTop([f EXCEPT !.pc = "loop", !.i = f.i + 1,
                                                    !.alpha = u.alpha,
                                                    !.best_score = u.best_score,
                                                    !.best_move = u.best_move])
                   /\ UNCHANGED ret
    /\ UNCHANGED <<game, id, now, pcall, tt, ttcall, TT, mmcall, engine>>

\* quiescence_search from its entry to the start of its loop, lines 190-232
QuiescenceEntry ==
    /\ Running("quiescence_search", "entry")
    /\ searcher' = Entered("qsearch_nodes")
    /\ LET f == Top
           e == qs_entry(board, f.alpha, f.beta, f.depth)
       IN  IF should_stop
           THEN ReturnTo([score |-> 0, move |-> None]) /\ UNCHANGED board
           ELSE IF e.kind = "return"
           THEN /\ ReturnTo([score |-> e.score, move |-> None])
                /\ board' = IF evaluate(board) >= f.beta \/ f.depth < QDepthFloor
                            THEN board
                            ELSE board_after_tactical_scan(
                                     board, get_legal_moves_with_forced_capture(board))
           ELSE /\ stack' = ReplaceTop([f EXCEPT !.pc = "loop", !.moves = e.moves,
                                                 !.alpha = e.alpha])
                /\ board' = board_after_order_moves(
                                board_after_tactical_scan(
                                    board, get_legal_moves_with_forced_capture(board)),
                                tactical_moves(board), None)
                /\ UNCHANGED ret
    /\ UNCHANGED <<game, id, now, pcall, tt, ttcall, TT, mmcall, engine>>

\* quiescence_search: the next tactical move is applied and searched, or the loop ends
QuiescenceLoop ==
    /\ Running("quiescence_search", "loop")
    /\ LET f == Top
       IN  IF f.i > Len(f.moves)
           THEN ReturnTo([score |-> f.alpha, move |-> None]) /\ UNCHANGED board
           ELSE /\ board' = push(board, f.moves[f.i])
                /\ stack' = Append(ReplaceTop([f EXCEPT !.pc = "await"]),
                                   [Frame("quiescence_search", f.depth - 1, -f.beta, -f.alpha, None)
                                       EXCEPT !.entry = board'])
                /\ UNCHANGED ret
    /\ UNCHANGED <<game, id, searcher, now, pcall, tt, ttcall, TT, mmcall, engine>>

\* quiescence_search: the child returned; the move is undone and the score used
QuiescenceResume ==
    /\ Running("quiescence_search", "await")
    /\ LET f == Top
           u == qs_update(f.alpha, f.beta, -ret.score)
       IN  /\ board' = pop(board)
           /\ IF u.done
              THEN ReturnTo([score |-> u.alpha, move |-> None])
              ELSE /\ stack' = ReplaceTop([f EXCEPT !.pc = "loop", !.i = f.i + 1,
                                                    !.alpha = u.alpha])
                   /\ UNCHANGED ret
    /\ UNCHANGED <<game, id, searcher, now, pcall, tt, ttcall, TT, mmcall, engine>>

Searching == id.pc \in {"loop", "await"}

\* time passes while a search with a time limit runs
Tick ==
    /\ Searching
    /\ Truthy(searcher.time_limit)
    /\ now - searcher.start_time[1] < MaxTime - 1
    /\ now' = now + 1
    /\ UNCHANGED <<game, board, stack, ret, id, searcher, pcall, tt, ttcall, TT, mmcall, engine>>

\* the driving layer sets the stop signal while a search runs
SetStop ==
    /\ Searching
    /\ ~searcher.stop_search
    /\ searcher' = [searcher EXCEPT !.stop_search = TRUE]
    /\ UNCHANGED <<game, board, stack, ret, id, now, pcall, tt, ttcall, TT, mmcall, engine>>

-----------------------------------------------------------------------------
(* transposition_table.py: TranspositionTable *)

\* TTEntryType
EXACT == 1
LOWER_BOUND == 2
UPPER_BOUND == 3

\* entries per megabyte of table
EntriesPerMb == 20000
\* the table that is too large loses one entry in EvictFraction
EvictFraction == 10
\* new_search cleans the table once in SweepPeriod generations
SweepPeriod == 100
\* an entry older than SweepAge generations is cleaned
SweepAge == 10
\* an entry younger than FreshAge generations is kept against a shallower store
FreshAge == 2
\* size_mb of a table made without arguments
DefaultSizeMb == 64

\* an entry that forgets its score
TTEntry_no_score(zobrist_key, depth, score, entry_type, best_move, age) ==
    [zobrist_key |-> zobrist_key, depth |-> depth, score |-> 0,
     entry_type |-> entry_type, best_move |-> best_move, age |-> age]

TTEntry(zobrist_key, depth, score, entry_type, best_move, age) ==
    [zobrist_key |-> zobrist_key, depth |-> depth, score |-> score,
     entry_type |-> entry_type, best_move |-> best_move, age |-> age]

\* TranspositionTable.__init__; table is the dict as the sequence of its values in
\* insertion order
TranspositionTable(size_mb) ==
    [max_entries |-> size_mb * EntriesPerMb, table |-> <<>>, hits |-> 0, misses |-> 0,
     collisions |-> 0, current_age |-> 0]

\* the place of key in the dict, 0 when it is not in it
Index(table, key) ==
    IF \E i \in 1 .. Len(table) : table[i].zobrist_key = key
    THEN CHOOSE i \in 1 .. Len(table) : table[i].zobrist_key = key
    ELSE 0

\* self.table.get(zobrist_hash(b)) as an Optional
EntryOf(t, b) ==
    LET i == Index(t.table, zobrist_hash(b))
    IN  IF i = 0 THEN <<>> ELSE <<t.table[i]>>

\* no key is deleted
Delete_nothing(table, keys) == table

\* del self.table[key] for every key of keys
Delete(table, keys) ==
    LET Stays(e) == e.zobrist_key \notin keys
    IN  SelectSeq(table, Stays)

clear(t) == [t EXCEPT !.table = <<>>, !.hits = 0, !.misses = 0, !.collisions = 0]

\* an entry that lags by SweepAge generations is cleaned as well
clean_old_entries_at_sweep_age(t) ==
    LET old_keys == {t.table[i].zobrist_key : i \in {j \in 1 .. Len(t.table) :
                                                 t.current_age - t.table[j].age >= SweepAge}}
    IN  [t EXCEPT !.table = Delete(@, old_keys)]

clean_old_entries(t) ==
    LET old_keys == {t.table[i].zobrist_key : i \in {j \in 1 .. Len(t.table) :
                                                 t.current_age - t.table[j].age > SweepAge}}
    IN  [t EXCEPT !.table = Delete(@, old_keys)]

new_search(t) ==
    LET aged == [t EXCEPT !.current_age = @ + 1]
    IN  IF aged.current_age % SweepPeriod = 0 THEN clean_old_entries(aged) ELSE aged

\* the entries are not told apart by their age
age_key_none(e) == 0

\* key=lambda x: x[1].age
age_key(e) == e.age

RECURSIVE InsertByAge(_, _)
\* e put into the sequence s sorted by age, after the entries that are not older
InsertByAge(s, e) ==
    IF s = <<>> THEN <<e>>
    ELSE IF age_key(Last(s)) <= age_key(e) THEN Append(s, e)
         ELSE Append(InsertByAge(Front(s), e), Last(s))

RECURSIVE SortedByAge(_)
\* sorted(self.table.items(), key=lambda x: x[1].age), a stable sort
SortedByAge(s) == IF s = <<>> THEN <<>> ELSE InsertByAge(SortedByAge(Front(s)), Last(s))

\* a store that replaces whatever entry the key has, and never trims the table
store_always(t, b, depth, score, entry_type, best_move) ==
    LET key == zobrist_hash(b)
        i == Index(t.table, key)
        entry == TTEntry(key, depth, score, entry_type, best_move, t.current_age)
    IN  [t EXCEPT !.table = IF i # 0 THEN [@ EXCEPT ![i] = entry] ELSE Append(@, entry)]

store(t, b, depth, score, entry_type, best_move) ==
    LET key == zobrist_hash(b)
        i == Index(t.table, key)
        entry == TTEntry(key, depth, score, entry_type, best_move, t.current_age)
        written == [t EXCEPT !.collisions = IF i # 0 THEN @ + 1 ELSE @,
                             !.table = IF i # 0 THEN [@ EXCEPT ![i] = entry]
                                       ELSE Append(@, entry)]
        sorted_entries == SortedByAge(written.table)
        remove_count == Len(sorted_entries) \div EvictFraction
        removed == {sorted_entries[k].zobrist_key : k \in 1 .. remove_count}
    IN  IF i # 0 /\ depth < t.table[i].depth /\ (t.current_age - t.table[i].age) < FreshAge
        THEN t
        ELSE IF Len(written.table) > written.max_entries
             THEN [written EXCEPT !.table = Delete(@, removed)]
             ELSE written

\* the test of probe that lets the score of entry be used for depth and the window
usable_any_bound(entry, depth, alpha, beta) == entry.depth >= depth

usable(entry, depth, alpha, beta) ==
    /\ entry.depth >= depth
    /\ \/ entry.entry_type = EXACT
       \/ entry.entry_type = LOWER_BOUND /\ entry.score >= beta
       \/ entry.entry_type = UPPER_BOUND /\ entry.score <= alpha

\* no move is returned with a score that cannot be used
probe_no_hint(t, b, depth, alpha, beta) ==
    LET key == zobrist_hash(b)
        i == Index(t.table, key)
        entry == t.table[i]
    IN  IF i = 0 \/ entry.zobrist_key # key
        THEN [table |-> [t EXCEPT !.misses = @ + 1], score |-> NoValue, move |-> None]
        ELSE IF usable(entry, depth, alpha, beta)
             THEN [table |-> [t EXCEPT !.hits = @ + 1], score |-> Some(entry.score),
                   move |-> entry.best_move]
             ELSE [table |-> [t EXCEPT !.hits = @ + 1], score |-> NoValue, move |-> None]

\* probe: the table after the call, and the pair it returns
probe(t, b, depth, alpha, beta) ==
    LET key == zobrist_hash(b)
        i == Index(t.table, key)
        entry == t.table[i]
    IN  IF i = 0 \/ entry.zobrist_key # key
        THEN [table |-> [t EXCEPT !.misses = @ + 1], score |-> NoValue, move |-> None]
        ELSE IF usable(entry, depth, alpha, beta)
             THEN [table |-> [t EXCEPT !.hits = @ + 1], score |-> Some(entry.score),
                   move |-> entry.best_move]
             ELSE [table |-> [t EXCEPT !.hits = @ + 1], score |-> NoValue,
                   move |-> entry.best_move]

-----------------------------------------------------------------------------
(* transposition.py: Transposition_Table, and search.py: minimax *)

\* float("inf")
INF_FLOAT == 1000000000

Transposition_Entry(key, depth, score, flag, best_move) ==
    [key |-> key, depth |-> depth, score |-> score, flag |-> flag, best_move |-> best_move]

\* Transposition_Table.__init__: the slots that the positions fall into, each None
Transposition_Table == [idx \in 0 .. (SlotClasses - 1) |-> <<>>]

index(key) == key % TTSize

\* Transposition_Table.store
tt_store(T, b, depth, score, flag, best_move) ==
    LET key == zobrist_hash(b)
        idx == index(key)
        entry == T[idx]
    IN  IF entry = <<>> \/ depth >= entry[1].depth
        THEN [T EXCEPT ![idx] = <<Transposition_Entry(key, depth, score, flag, best_move)>>]
        ELSE T

\* the entry of the slot is returned without comparing its key
lookup_unverified(T, b) ==
    LET key == zobrist_hash(b)
        entry == T[index(key)]
    IN  entry

\* Transposition_Table.lookup: <<>> is None
lookup(T, b) ==
    LET key == zobrist_hash(b)
        entry == T[index(key)]
    IN  IF entry # <<>> /\ entry[1].key = key THEN entry ELSE <<>>

RECURSIVE minimax(_, _, _, _, _, _)
RECURSIVE minimax_loop(_, _, _, _, _, _, _, _, _)

\* the loop of minimax over moves[i ..]: the table and m_eval at its end
minimax_loop(T, b, depth, alpha, beta, max_player, moves, i, m_eval) ==
    IF i > Len(moves) THEN [T |-> T, m_eval |-> m_eval]
    ELSE LET child == minimax(T, push(b, moves[i]), depth - 1, alpha, beta, ~max_player)
             evaluation == child.score
             m == IF max_player THEN Max(m_eval, evaluation) ELSE Min(m_eval, evaluation)
             a == IF max_player THEN Max(alpha, evaluation) ELSE alpha
             be == IF max_player THEN beta ELSE Min(beta, evaluation)
         IN  IF be <= a THEN [T |-> child.T, m_eval |-> m]
             ELSE minimax_loop(child.T, b, depth, a, be, max_player, moves, i + 1, m)

\* minimax on the shared table T: the score it returns, the table it leaves and the flag
\* that it passed to TT.store ("none" when it returned before)
minimax(T, b, depth, alpha, beta, max_player) ==
    LET entry == lookup(T, b)
        found == entry # <<>> /\ entry[1].depth >= depth
        a == IF found /\ entry[1].flag = "LOWERBOUND" THEN Max(alpha, entry[1].score)
             ELSE alpha
        be == IF found /\ entry[1].flag = "UPPERBOUND" THEN Min(beta, entry[1].score)
              ELSE beta
    IN  IF found /\ (entry[1].flag = "EXACT" \/ a >= be)
        THEN [score |-> entry[1].score, T |-> T, flag |-> "none"]
        ELSE IF depth = 0 \/ is_game_over(b)
        THEN [score |-> evaluate(b), T |-> T, flag |-> "none"]
        ELSE LET r == minimax_loop(T, b, depth, a, be, max_player, forced_legal_moves(b), 1,
                                   IF max_player THEN -INF_FLOAT ELSE INF_FLOAT)
                 flag == IF r.m_eval <= alpha THEN "UPPERBOUND"
                         ELSE IF r.m_eval >= beta THEN "LOWERBOUND"
                         ELSE "EXACT"
             IN  [score |-> r.m_eval,
                  T |-> tt_store(r.T, b, depth, r.m_eval, flag, None), flag |-> flag]

-----------------------------------------------------------------------------
RECURSIVE Boards(_, _)
\* the boards reachable from b by at most n forced-capture-legal moves
Boards(b, n) ==
    IF n = 0 THEN {b}
    ELSE {b} \cup UNION {Boards(push(b, get_legal_moves_with_forced_capture(b)[k]), n - 1) :
                            k \in 1 .. Len(get_legal_moves_with_forced_capture(b))}

\* plies already played when the search is called
MaxRootPly == 2

NoCall == [fn |-> "none"]

\* ForcedCaptureEngine.__init__; out is what was sent since the last command was read,
\* and legal_moves the local of make_move while the search runs
EngineInit == [force_mode |-> FALSE, time_left |-> 60000, moves_to_go |-> 40,
               engine_color |-> BLACK, pc |-> "idle", legal_moves |-> <<>>, out |-> <<>>]
TableInit == TranspositionTable(DefaultSizeMb)

InitSearch ==
    /\ game \in Games \cup CaptureRuns
    /\ board \in Boards(<<>>, MaxRootPly)
    /\ stack = <<>>
    /\ ret = NoRet
    /\ id = IdIdle
    /\ searcher = SearcherInit
    /\ now = 1
    /\ pcall = NoCall
    /\ tt = TableInit
    /\ ttcall = NoCall
    /\ TT = Transposition_Table
    /\ mmcall = NoCall
    /\ engine = EngineInit

NextSearch ==
    \/ Search
    \/ IterativeDeepening
    \/ DeepeningLoop
    \/ DeepeningAdopt
    \/ AlphaBetaEntry
    \/ AlphaBetaHorizon
    \/ AlphaBetaLoop
    \/ AlphaBetaResume
    \/ QuiescenceEntry
    \/ QuiescenceLoop
    \/ QuiescenceResume
    \/ Tick
    \/ SetStop

SpecSearch == InitSearch /\ [][NextSearch]_vars

\* the steps of the alpha_beta and quiescence_search calls
CallSteps ==
    \/ AlphaBetaEntry
    \/ AlphaBetaHorizon
    \/ AlphaBetaLoop
    \/ AlphaBetaResume
    \/ QuiescenceEntry
    \/ QuiescenceLoop
    \/ QuiescenceResume

\* the interpreter goes on with the call that is running
SpecSearchFair == SpecSearch /\ WF_vars(CallSteps)

-----------------------------------------------------------------------------
(* engine.py: ForcedCaptureEngine, and forced_chess.py: play_move *)

\* depth of ChessSearcher.search when none is given
DefaultDepth == 5

\* a test that finds every move in every list
InList_any(m, s) == TRUE

InList(m, s) == \E k \in 1 .. Len(s) : s[k] = m

\* a text that is no move in any notation
Unparsable == -1
\* what the user can send for a move: no move, the null move, a legal move or another
MoveStrings == Unparsable .. (MaxBranch + 1)

\* calculate_time_for_move, in tenths of a second with the fraction dropped
calculate_time_for_move(e) ==
    LET time_in_seconds == e.time_left \div 10
        time_for_move == IF e.moves_to_go > 0
                         THEN time_in_seconds \div (e.moves_to_go + 5)
                         ELSE time_in_seconds \div 40
    IN  Max(1, Min(time_for_move, (time_in_seconds * 3) \div 10))

\* make_move from `Make the move` on: the move is pushed and sent, and the end of the
\* game is announced
Played(e, b, best_move) ==
    LET after == push(b, best_move)
        end == IF is_checkmate(after)
               THEN <<<<IF turn(after) = BLACK THEN "1-0" ELSE "0-1", "Checkmate">>>>
               ELSE IF is_stalemate(after) THEN <<<<"1/2-1/2", "Stalemate">>>>
               ELSE IF is_insufficient_material(after)
                    THEN <<<<"1/2-1/2", "Insufficient material">>>>
               ELSE IF can_claim_draw(after)
                    THEN <<<<"1/2-1/2", "Draw by repetition or 50-move rule">>>>
               ELSE <<>>
    IN  [e EXCEPT !.out = (@ \o <<<<"move", best_move>>>>) \o end]

\* the record of a command that can move: the board it found, the position make_move was called on,
\* whether make_move called the search, whether it played legal_moves[0] because the
\* search returned no move, and the error raised
Call(fn, move) ==
    [fn |-> fn, move |-> move, board |-> board, made |-> <<>>, searched |-> FALSE,
     fallback |-> FALSE, raised |-> <<>>]

\* make_move searches whenever there is a legal move
make_move_always_search(e, b, call) ==
    LET legal_moves_ == get_legal_moves_with_forced_capture(b)
    IN  IF is_game_over(b) \/ legal_moves_ = <<>>
        THEN /\ board' = b
             /\ engine' = e
             /\ pcall' = [call EXCEPT !.made = <<b>>]
             /\ UNCHANGED <<id, searcher>>
        ELSE /\ board' = b
             /\ engine' = [e EXCEPT !.pc = "searching", !.legal_moves = legal_moves_]
             /\ pcall' = [call EXCEPT !.made = <<b>>, !.searched = TRUE]
             /\ search(b, DefaultDepth, Some(calculate_time_for_move(e)))

\* make_move on board b up to the call of the search, lines 215-239
make_move(e, b, call) ==
    LET legal_moves_ == get_legal_moves_with_forced_capture(b)
    IN  IF is_game_over(b) \/ legal_moves_ = <<>>
        THEN /\ board' = b
             /\ engine' = e
             /\ pcall' = [call EXCEPT !.made = <<b>>]
             /\ UNCHANGED <<id, searcher>>
        ELSE IF Len(legal_moves_) = 1
        THEN /\ board' = push(b, legal_moves_[1])
             /\ engine' = Played(e, b, legal_moves_[1])
             /\ pcall' = [call EXCEPT !.made = <<b>>]
             /\ UNCHANGED <<id, searcher>>
        ELSE /\ board' = b
             /\ engine' = [e EXCEPT !.pc = "searching", !.legal_moves = legal_moves_]
             /\ pcall' = [call EXCEPT !.made = <<b>>, !.searched = TRUE]
             /\ search(b, DefaultDepth, Some(calculate_time_for_move(e)))

\* make_move once the search returned, lines 241-267
MakeMoveFinish ==
    /\ engine.pc = "searching"
    /\ id.pc = "done"
    /\ LET result == id.result[1]
           best_move == IF result.best_move = None THEN engine.legal_moves[1]
                        ELSE result.best_move
       IN  /\ board' = push(board, best_move)
           /\ engine' = Played([engine EXCEPT !.pc = "idle", !.legal_moves = <<>>],
                               board, best_move)
    /\ id' = IdIdle
    /\ pcall' = [pcall EXCEPT !.fallback = (id.result[1].best_move = None)]
    /\ UNCHANGED <<game, stack, ret, searcher, now, tt, ttcall, TT, mmcall>>

\* the engine reads a command only between two moves, and the games of the model end
\* after MaxPly plies
Ready(plies) == engine.pc = "idle" /\ Len(board) + plies <= MaxPly

HandleGo ==
    /\ Ready(1)
    /\ make_move([engine EXCEPT !.force_mode = FALSE, !.engine_color = turn(board),
                                !.out = <<>>],
                 board, Call("go", None))
    /\ UNCHANGED <<game, stack, ret, now, tt, ttcall, TT, mmcall>>

\* a legal user move is answered in force mode too
HandleUsermove_force_ignored ==
    /\ Ready(2)
    /\ \E move_str \in MoveStrings :
          LET call == Call("usermove", move_str)
              legal_moves_ == get_legal_moves_with_forced_capture(board)
              e == [engine EXCEPT !.out = <<>>]
          IN  IF move_str = Unparsable
              THEN /\ engine' = [e EXCEPT !.out = <<<<"Error", move_str>>>>]
                   /\ pcall' = call
                   /\ UNCHANGED <<board, id, searcher>>
              ELSE IF ~InList(move_str, legal_moves_)
              THEN /\ engine' = [e EXCEPT !.out = <<<<"Illegal move", move_str>>>>]
                   /\ pcall' = call
                   /\ UNCHANGED <<board, id, searcher>>
              ELSE IF turn(push(board, move_str)) = engine.engine_color
              THEN make_move(e, push(board, move_str), call)
              ELSE /\ board' = push(board, move_str)
                   /\ engine' = e
                   /\ pcall' = call
                   /\ UNCHANGED <<id, searcher>>
    /\ UNCHANGED <<game, stack, ret, now, tt, ttcall, TT, mmcall>>

HandleUsermove ==
    /\ Ready(2)
    /\ \E move_str \in MoveStrings :
          LET call == Call("usermove", move_str)
              legal_moves_ == get_legal_moves_with_forced_capture(board)
              e == [engine EXCEPT !.out = <<>>]
          IN  IF move_str = Unparsable
              THEN /\ engine' = [e EXCEPT !.out = <<<<"Error", move_str>>>>]
                   /\ pcall' = call
                   /\ UNCHANGED <<board, id, searcher>>
              ELSE IF ~InList(move_str, legal_moves_)
              THEN /\ engine' = [e EXCEPT !.out = <<<<"Illegal move", move_str>>>>]
                   /\ pcall' = call
                   /\ UNCHANGED <<board, id, searcher>>
              ELSE IF ~engine.force_mode /\ turn(push(board, move_str)) = engine.engine_color
              THEN make_move(e, push(board, move_str), call)
              ELSE /\ board' = push(board, move_str)
                   /\ engine' = e
                   /\ pcall' = call
                   /\ UNCHANGED <<id, searcher>>
    /\ UNCHANGED <<game, stack, ret, now, tt, ttcall, TT, mmcall>>

HandleForce ==
    /\ Ready(0)
    /\ engine' = [engine EXCEPT !.force_mode = TRUE, !.out = <<>>]
    /\ pcall' = NoCall
    /\ UNCHANGED <<game, board, stack, ret, id, searcher, now, tt, ttcall, TT, mmcall>>

\* the clock readings the interface reports, in hundredths of a second
TimeLefts == {0, 60000}

HandleTime ==
    /\ Ready(0)
    /\ \E t \in TimeLefts : engine' = [engine EXCEPT !.time_left = t, !.out = <<>>]
    /\ pcall' = NoCall
    /\ UNCHANGED <<game, board, stack, ret, id, searcher, now, tt, ttcall, TT, mmcall>>

\* play_move of forced_chess.py on board b: the board it leaves and the error it raises
play_move(b, move_str) ==
    IF move_str = Unparsable
    THEN [board |-> b, raised |-> <<"ValueError", "Invalid move format">>]
    ELSE IF ~InList(move_str, legal_moves(b))
    THEN [board |-> b, raised |-> <<"ValueError", "Illegal move.">>]
    ELSE IF ~InList(move_str, forced_legal_moves(b))
    THEN [board |-> b, raised |-> <<"ValueError", "Captures are available">>]
    ELSE [board |-> push(b, move_str), raised |-> <<>>]

PlayMove ==
    /\ Ready(1)
    /\ \E move_str \in MoveStrings :
          /\ board' = play_move(board, move_str).board
          /\ pcall' = [Call("play_move", move_str)
                          EXCEPT !.raised = play_move(board, move_str).raised]
    /\ UNCHANGED <<game, stack, ret, id, searcher, now, tt, ttcall, TT, mmcall, engine>>

\* the command `?`, line 332-336
HandleMoveNow ==
    /\ Ready(0)
    /\ searcher' = IF ~engine.force_mode THEN [searcher EXCEPT !.stop_search = TRUE]
                   ELSE searcher
    /\ engine' = [engine EXCEPT !.out = <<>>]
    /\ pcall' = NoCall
    /\ UNCHANGED <<game, board, stack, ret, id, now, tt, ttcall, TT, mmcall>>

InitEngine ==
    /\ game \in Games
    /\ board = <<>>
    /\ stack = <<>>
    /\ ret = NoRet
    /\ id = IdIdle
    /\ searcher = SearcherInit
    /\ now = 1
    /\ pcall = NoCall
    /\ tt = TableInit
    /\ ttcall = NoCall
    /\ TT = Transposition_Table
    /\ mmcall = NoCall
    /\ engine = EngineInit

NextEngine ==
    \/ HandleGo
    \/ HandleUsermove
    \/ HandleForce
    \/ HandleTime
    \/ HandleMoveNow
    \/ PlayMove
    \/ MakeMoveFinish
    \/ DeepeningLoop
    \/ DeepeningAdopt
    \/ AlphaBetaEntry
    \/ AlphaBetaHorizon
    \/ AlphaBetaLoop
    \/ AlphaBetaResume
    \/ QuiescenceEntry
    \/ QuiescenceLoop
    \/ QuiescenceResume
    \/ Tick

SpecEngine == InitEngine /\ [][NextEngine]_vars

-----------------------------------------------------------------------------
(* One call of a pure function on an arbitrary position and window *)

Range(s) == {s[k] : k \in 1 .. Len(s)}

WindowBounds == {-INF, -29950, -100, -50, 0, 50, 100, 29950, INF}
Windows == {w \in WindowBounds \X WindowBounds : w[1] < w[2]}

AllBoards == Boards(<<>>, MaxPly)

CallAlphaBeta ==
    /\ pcall = NoCall
    /\ \E b \in AllBoards, depth \in 0 .. (MaxDepth + 1), w \in Windows :
          pcall' = [fn |-> "alpha_beta", board |-> b, depth |-> depth,
                    alpha |-> w[1], beta |-> w[2],
                    result |-> alpha_beta(b, depth, w[1], w[2], None)]
    /\ UNCHANGED <<game, board, stack, ret, id, searcher, now, tt, ttcall, TT, mmcall, engine>>

CallQuiescence ==
    /\ pcall = NoCall
    /\ \E b \in AllBoards, depth_left \in {0, -1, QDepthFloor - 1}, w \in Windows :
          pcall' = [fn |-> "quiescence_search", board |-> b, depth |-> depth_left,
                    alpha |-> w[1], beta |-> w[2],
                    result |-> quiescence_search(b, w[1], w[2], depth_left),
                    nodes |-> qsearch_nodes(b, w[1], w[2], depth_left)]
    /\ UNCHANGED <<game, board, stack, ret, id, searcher, now, tt, ttcall, TT, mmcall, engine>>

CallForcedMoves ==
    /\ pcall = NoCall
    /\ \E b \in AllBoards :
          pcall' = [fn |-> "get_legal_moves_with_forced_capture", board |-> b,
                    result |-> get_legal_moves_with_forced_capture(b),
                    result_forced_chess |-> forced_legal_moves(b)]
    /\ UNCHANGED <<game, board, stack, ret, id, searcher, now, tt, ttcall, TT, mmcall, engine>>

CallOrderMoves ==
    /\ pcall = NoCall
    /\ \E b \in AllBoards, pv_move \in 0 .. MaxBranch :
          \E moves \in {get_legal_moves_with_forced_capture(b), tactical_moves(b),
                        legal_moves(b)} :
              pcall' = [fn |-> "order_moves", board |-> b, pv_move |-> pv_move,
                        moves |-> moves,
                        result |-> order_moves(b, moves, pv_move),
                        board_after |-> board_after_order_moves(b, moves, pv_move)]
    /\ UNCHANGED <<game, board, stack, ret, id, searcher, now, tt, ttcall, TT, mmcall, engine>>

InitPure ==
    /\ game \in Games
    /\ board = <<>>
    /\ stack = <<>>
    /\ ret = NoRet
    /\ id = IdIdle
    /\ searcher = SearcherInit
    /\ now = 1
    /\ pcall = NoCall
    /\ tt = TableInit
    /\ ttcall = NoCall
    /\ TT = Transposition_Table
    /\ mmcall = NoCall
    /\ engine = EngineInit

NextPure ==
    \/ CallAlphaBeta
    \/ CallQuiescence
    \/ CallForcedMoves
    \/ CallOrderMoves

SpecPure == InitPure /\ [][NextPure]_vars

-----------------------------------------------------------------------------
(* Calls of the transposition table *)

\* generations a table goes through
MaxGen == 2
\* largest value of the counters hits, misses and collisions
MaxCount == 1

RECURSIVE Path(_)
\* the k-th move stack, shortest first
Path(k) == IF k = 0 THEN <<>>
           ELSE Append(Path((k - 1) \div MaxBranch), ((k - 1) % MaxBranch) + 1)

RECURSIVE Filled(_, _)
\* the table t after the positions Path(1) .. Path(n) were stored in turn
Filled(t, n) ==
    IF n = 0 THEN t ELSE store(Filled(t, n - 1), Path(n), MaxDepth, 0, EXACT, None)

RECURSIVE Aged(_, _)
\* the table t after n calls of new_search: calls that stay below the next multiple of
\* SweepPeriod only advance current_age
Aged(t, n) ==
    IF n = 0 THEN t
    ELSE IF (t.current_age % SweepPeriod) + n < SweepPeriod
         THEN [t EXCEPT !.current_age = @ + n]
         ELSE new_search(Aged(t, n - 1))

\* the table t, in its first generation, MaxGen generations from being cleaned, after it
\* stored one more position SweepAge + 1 generations before the cleaning and another one
\* generation later
Staggered(t) ==
    LET early == store(Aged(t, SweepPeriod - SweepAge - 1), Path(EvictFraction - 2),
                       MaxDepth, 0, EXACT, None)
        late == store(new_search(early), Path(EvictFraction - 1), MaxDepth, 0, EXACT, None)
    IN  Aged(late, SweepAge - MaxGen)

\* the position whose entry is studied, and the entries stored for it
TableBoard == Path(1)
TableDepths == 1 .. MaxDepth
TableScores == {-50, 50}
TableTypes == {EXACT, LOWER_BOUND, UPPER_BOUND}
TableMoves == {1}
TableWindows == {<<-100, 100>>, <<-100, 0>>, <<0, 100>>}

\* the arguments of store: any entry for TableBoard, and the entry of Filled for the
\* position that Filled leaves out
StoreInputs ==
    ({TableBoard} \X TableDepths \X TableScores \X TableTypes \X TableMoves)
        \cup {<<Path(0), MaxDepth, 0, EXACT, None>>}

Store ==
    \E in \in StoreInputs :
        /\ store(tt, in[1], in[2], in[3], in[4], in[5]).collisions <= MaxCount
        /\ tt' = store(tt, in[1], in[2], in[3], in[4], in[5])
        /\ ttcall' = [fn |-> "store", board |-> in[1], depth |-> in[2], score |-> in[3],
                      entry_type |-> in[4], best_move |-> in[5],
                      existing |-> EntryOf(tt, in[1]), age |-> tt.current_age,
                      evicted |-> {tt.table[i].age : i \in {j \in 1 .. Len(tt.table) :
                                      /\ tt.table[j].zobrist_key # zobrist_hash(in[1])
                                      /\ Index(tt'.table, tt.table[j].zobrist_key) = 0}}]
        /\ UNCHANGED <<game, board, stack, ret, id, searcher, now, pcall, TT, mmcall, engine>>

Probe ==
    \E b \in {Path(0), TableBoard}, depth \in TableDepths, w \in TableWindows :
        LET r == probe(tt, b, depth, w[1], w[2])
        IN  /\ r.table.hits <= MaxCount
            /\ r.table.misses <= MaxCount
            /\ tt' = r.table
            /\ ttcall' = [fn |-> "probe", board |-> b, depth |-> depth, alpha |-> w[1],
                          beta |-> w[2], score |-> r.score, move |-> r.move,
                          after_store |-> IF ttcall.fn = "store" /\ ttcall.board = b
                                          THEN <<ttcall>> ELSE <<>>]
            /\ UNCHANGED <<game, board, stack, ret, id, searcher, now, pcall, TT, mmcall, engine>>

NewSearch ==
    /\ \/ tt.current_age < MaxGen
       \/ tt.current_age >= SweepPeriod - MaxGen /\ tt.current_age < SweepPeriod
    /\ tt' = new_search(tt)
    /\ ttcall' = [fn |-> "new_search",
                  removed |-> {tt.table[i].age : i \in {j \in 1 .. Len(tt.table) :
                                  Index(new_search(tt).table, tt.table[j].zobrist_key) = 0}}]
    /\ UNCHANGED <<game, board, stack, ret, id, searcher, now, pcall, TT, mmcall, engine>>

Clear ==
    /\ tt' = clear(tt)
    /\ ttcall' = [fn |-> "clear"]
    /\ UNCHANGED <<game, board, stack, ret, id, searcher, now, pcall, TT, mmcall, engine>>

\* a table as it is made, or one that stored EvictFraction - 1 positions, all but two in
\* its first generation and these two on either side of the age that is cleaned, and is
\* MaxGen generations from being cleaned
InitTable ==
    /\ game = 0
    /\ board = <<>>
    /\ stack = <<>>
    /\ ret = NoRet
    /\ id = IdIdle
    /\ searcher = SearcherInit
    /\ now = 1
    /\ pcall = NoCall
    /\ tt \in {TranspositionTable(1),
               Staggered(Filled(TranspositionTable(0), EvictFraction - 3))}
    /\ ttcall = NoCall
    /\ TT = Transposition_Table
    /\ mmcall = NoCall
    /\ engine = EngineInit

NextTable ==
    \/ Store
    \/ Probe
    \/ NewSearch
    \/ Clear

SpecTable == InitTable /\ [][NextTable]_vars

-----------------------------------------------------------------------------
(* Calls of minimax on the shared table *)

MinimaxWindows == {<<-INF_FLOAT, INF_FLOAT>>, <<-50, 50>>}

Minimax ==
    \E b \in Boards(<<>>, 1), depth \in 0 .. MaxDepth, w \in MinimaxWindows :
        LET r == minimax(TT, b, depth, w[1], w[2], turn(b) = WHITE)
        IN  /\ TT' = r.T
            /\ mmcall' = [fn |-> "minimax", board |-> b, depth |-> depth, alpha |-> w[1],
                          beta |-> w[2], max_player |-> (turn(b) = WHITE),
                          score |-> r.score, flag |-> r.flag,
                          slot |-> TT[index(zobrist_hash(b))]]
            /\ UNCHANGED <<game, board, stack, ret, id, searcher, now, pcall, tt, ttcall, engine>>

InitMinimax ==
    /\ game \in Games
    /\ board = <<>>
    /\ stack = <<>>
    /\ ret = NoRet
    /\ id = IdIdle
    /\ searcher = SearcherInit
    /\ now = 1
    /\ pcall = NoCall
    /\ tt = TableInit
    /\ ttcall = NoCall
    /\ TT = Transposition_Table
    /\ mmcall = NoCall
    /\ engine = EngineInit

NextMinimax == Minimax

SpecMinimax == InitMinimax /\ [][NextMinimax]_vars

-----------------------------------------------------------------------------
(* Properties of the driver and of the searches *)

ForcedMoves(b) == Range(get_legal_moves_with_forced_capture(b))
IsPrefix(p, q) == Len(p) <= Len(q) /\ SubSeq(q, 1, Len(p)) = p
Result == id.result[1]

\* C1: the move returned by every alpha_beta call is None or a forced-capture-legal
\* move of the position the call was made on, and so is the best_move of the Search
\* Result, whenever the stop condition becomes true
C1_ReturnedMoveIsForcedLegal ==
    [][/\ (stack # <<>> /\ Top.fn = "alpha_beta" /\ Len(stack') < Len(stack))
              => (ret'.move = None \/ ret'.move \in ForcedMoves(Top.entry))
       /\ id'.pc = "done"
              => (id'.result[1].best_move = None
                  \/ id'.result[1].best_move \in ForcedMoves(id'.entry))]_vars

\* C1: an interrupted search returned a move although captures had narrowed the choice
C1_Witness ==
    /\ id.pc = "done"
    /\ should_stop
    /\ Result.best_move # None
    /\ Len(get_legal_moves_with_forced_capture(id.entry)) < Len(legal_moves(id.entry))

RECURSIVE best_after(_, _)
\* best_move once the iterations at depths 1..d ended with the stop condition false
best_after(b, d) ==
    IF d = 0 THEN None
    ELSE LET v == alpha_beta(b, d, -INF, INF, best_after(b, d - 1))
         IN  IF v.move # None THEN v.move ELSE best_after(b, d - 1)

\* what the iteration at depth d returns when the stop condition stays false
iteration(b, d) == alpha_beta(b, d, -INF, INF, best_after(b, d - 1))

\* C4 as stated: the Search Result carries the move and the score of the last iteration
\* during which the stop condition was never true
C4_ResultIsLastCleanIteration ==
    (id.pc = "done" /\ id.clean >= 1)
        => /\ Result.best_move = iteration(id.entry, id.clean).move
           /\ Result.score = iteration(id.entry, id.clean).score

\* C4 amended: the stop condition stays true once true; an iteration that ends with it
\* true assigns neither best_move nor best_score; and the Search Result carries the move
\* and score of the last iteration during which it was never true if that iteration
\* returned a move, and no move with score 0 otherwise
C4_InterruptedIterationDiscarded ==
    [][/\ (Searching /\ should_stop) => should_stop'
       /\ (id.pc = "await" /\ stack = <<>> /\ should_stop)
              => (id'.best_move = id.best_move /\ id'.best_score = id.best_score)
       /\ (id'.pc = "done" /\ id.pc # "done")
              => LET r == id'.result[1]
                     v == iteration(id'.entry, id'.clean)
                 IN  IF id'.clean = 0 \/ v.move = None
                     THEN r.best_move = None /\ r.score = 0
                     ELSE r.best_move = v.move /\ r.score = v.score]_vars

\* C4: the iteration at depth 2 was interrupted after depth 1 had been adopted
C4_Witness ==
    /\ id.pc = "done"
    /\ id.clean = 1
    /\ id.depth = 2
    /\ searcher.stats.nodes_searched > 3
    /\ Result.best_move # None

\* C5: every alpha_beta and quiescence_search call returns with the board as it was at
\* its entry, order_moves leaves the board as it found it, iterative_deepening ends on
\* the root board, and in between the board only extends the boards of the calls in
\* progress
C5_BoardRestored ==
    [][/\ Len(stack') < Len(stack) => board' = Top.entry
       /\ (Running("alpha_beta", "entry") /\ Len(stack') = Len(stack)) => board' = board
       /\ id'.pc \in {"done", "raised"} => board' = id'.entry
       /\ \A k \in 1 .. Len(stack') : IsPrefix(stack'[k].entry, board')]_vars

\* C5: a search on a board with moves already played ended after a beta cutoff and
\* after the stop condition had been observed
C5_Witness ==
    /\ id.pc = "done"
    /\ should_stop
    /\ searcher.stats.beta_cutoffs > 0
    /\ id.entry # <<>>
    /\ board = id.entry

\* C14 as stated: a search with a time budget of 0 on a position with a legal move ends
\* with a Search Result of depth at least 1 whose best_move is a legal move
C14_ZeroBudgetReturnsMove ==
    (/\ id.pc = "done"
     /\ id.budget = Some(0)
     /\ ~searcher.stop_search
     /\ legal_moves(id.entry) # <<>>)
        => /\ Result.depth >= 1
           /\ Result.best_move \in Range(legal_moves(id.entry))

\* alpha_beta scores b as a draw before it looks at any move
Drawn(b) == is_stalemate(b) \/ is_insufficient_material(b) \/ can_claim_draw(b)

\* C14, what the code does: the same whenever the position is not drawn by insufficient
\* material or by a draw that can be claimed
C14_ZeroBudgetReturnsMoveUnlessDrawn ==
    (/\ id.pc = "done"
     /\ id.budget = Some(0)
     /\ ~searcher.stop_search
     /\ legal_moves(id.entry) # <<>>
     /\ ~Drawn(id.entry))
        => /\ Result.depth >= 1
           /\ Result.best_move \in ForcedMoves(id.entry)

\* the call had a non-positive depth, or an absent or non-positive time budget
Degenerate == id.max_depth <= 0 \/ id.budget = NoValue \/ id.budget[1] <= 0

\* C15 as stated: a search called with a non-positive depth, or with an absent or
\* non-positive time budget, raises no error, and returns a Search Result that a search
\* of at least one node produced
C15_DegenerateArgumentsFallBack ==
    (id.pc \in {"done", "raised"} /\ Degenerate /\ ~searcher.stop_search)
        => /\ id.pc = "done"
           /\ Result.nodes_searched >= 1

\* C15, what the code does: with a depth of at least 1 no error is raised; an absent or
\* zero budget leaves the search unbounded, and a negative budget ends it before the
\* first node
C15_PositiveDepthDoesNotFail ==
    (id.pc \in {"done", "raised"} /\ id.max_depth >= 1 /\ ~searcher.stop_search)
        => /\ id.pc = "done"
           /\ Result.depth >= 1
           /\ (id.budget = NoValue \/ id.budget[1] = 0)
                  => (Result.depth = id.clean /\ Result.nodes_searched >= 1)
           /\ (id.budget # NoValue /\ id.budget[1] < 0)
                  => (Result.nodes_searched = 0 /\ Result.best_move = None)

\* a search with a positive time budget on a root with a legal move has ended
PositiveBudgetDone ==
    /\ id.pc = "done"
    /\ id.budget # NoValue
    /\ id.budget[1] > 0
    /\ legal_moves(id.entry) # <<>>

\* C22 as stated: a search with a positive time budget on a root with a legal move ends
\* with a best_move, the move of an iteration of depth at least 1 that was completed
\* before the stop condition became true
C22_PositiveBudgetReturnsMove ==
    PositiveBudgetDone => (Result.best_move # None /\ id.clean >= 1)

\* the search returns a move when the first iteration was completed before the stop
\* condition became true, on a root that alpha_beta does not score as a draw
C22_MoveOnceDepthOneCompleted ==
    (PositiveBudgetDone /\ id.clean >= 1 /\ ~Drawn(id.entry))
        => Result.best_move \in ForcedMoves(id.entry)

\* C23 as stated: the depth of the Search Result is the depth of the iteration whose
\* move and score it carries, the deepest one that was completed and adopted
C23_DepthIsAdoptedDepth ==
    (id.pc = "done" /\ Result.best_move # None)
        => /\ Result.depth = id.clean
           /\ Result.best_move = iteration(id.entry, Result.depth).move
           /\ Result.score = iteration(id.entry, Result.depth).score

\* C24 as stated: the iteration at depth 1, or without a previous best move, is searched
\* with the window (-999999, 999999), and every other iteration with the window of the
\* previous score minus 25 and plus 25
C24_AspirationWindow ==
    [][(id.pc = "loop" /\ id'.pc = "await")
          => LET f == stack'[1]
             IN  IF id'.depth = 1 \/ id.best_move = None
                 THEN f.alpha = -INF /\ f.beta = INF
                 ELSE f.alpha = id.best_score - 25 /\ f.beta = id.best_score + 25]_vars

\* every iteration is searched with the window (-999999, 999999)
C24_FullWindow ==
    [][(id.pc = "loop" /\ id'.pc = "await")
          => (stack'[1].alpha = -INF /\ stack'[1].beta = INF)]_vars

\* C25: no iteration is started after an iteration whose score has an absolute value
\* above 29000: the search ends when such an iteration has returned
C25_MateEndsDeepening ==
    [][/\ (id.pc = "loop" /\ id'.pc = "await" /\ id'.depth > 1)
             => (id.score <= 29000 /\ id.score >= -29000)
       /\ (id.pc = "await" /\ id'.pc # "await" /\ (ret.score > 29000 \/ ret.score < -29000))
             => id'.pc = "done"]_vars

\* C25: a search with depth to spare ended after the iteration at depth 1 had found a
\* mate, with the stop condition false
C25_Witness ==
    /\ id.pc = "done"
    /\ ~should_stop
    /\ Result.depth = 1
    /\ id.max_depth > 1
    /\ Result.score > 29000
    /\ Result.best_move \in ForcedMoves(id.entry)
    /\ is_checkmate(push(id.entry, Result.best_move))

\* the stop condition has been observed and calls of the search are still in progress
Unwinding == searcher.observed > 0 /\ stack # <<>>

\* a call entered after the stop condition was observed returns 0 at its entry
ReturnsAtEntry ==
    (Top.pc = "entry" /\ stack' # stack)
        => /\ stack' = Front(stack)
           /\ ret' = [score |-> 0, move |-> None]
           /\ board' = board

\* C20 as stated: once the stop condition has been observed, every call of alpha_beta
\* and quiescence_search entered afterwards returns 0 at its entry, and no call in
\* progress applies a further move
C20_NoMoveAfterStop ==
    [][Unwinding => (ReturnsAtEntry /\ Len(board') <= Len(board))]_vars

\* C20 amended: once the stop condition has been observed, every call of alpha_beta and
\* quiescence_search entered afterwards returns 0 at its entry; a call in progress may
\* still apply each of its remaining moves, only from its loop and only to enter a child
\* that returns 0 at its entry, so that the call stack never grows above the height at
\* which the stop condition was observed
C20_NoSearchAfterStop ==
    [][Unwinding => /\ ReturnsAtEntry
                    /\ Len(stack') <= searcher.observed
                    /\ Len(board') > Len(board)
                          => /\ Top.pc = "loop"
                             /\ Len(stack') = Len(stack) + 1
                             /\ stack'[Len(stack')].pc = "entry"]_vars

\* C20: a child of a call in progress has been entered after the stop condition was
\* observed
C20_Witness ==
    /\ Unwinding
    /\ Len(stack) >= 2
    /\ Top.pc = "entry"
    /\ Len(board) > Len(id.entry)

\* the place of move m in the list s
Place(s, m) == CHOOSE i \in 1 .. Len(s) : s[i] = m

\* C32 as stated: in the list that order_moves returns every capture precedes every
\* non-capture move that is not the principal move, and the non-capture moves keep the
\* relative order that they have in the input list
C32_CapturesFirstQuietInOrder ==
    pcall.fn = "order_moves"
        => LET b == pcall.board
               r == pcall.result
           IN  /\ \A i, j \in 1 .. Len(r) :
                      (is_capture(b, r[j]) /\ ~is_capture(b, r[i]) /\ r[i] # pcall.pv_move)
                          => j < i
               /\ \A i, j \in 1 .. Len(r) :
                      (/\ ~is_capture(b, r[i]) /\ ~is_capture(b, r[j])
                       /\ Place(pcall.moves, r[i]) < Place(pcall.moves, r[j]))
                          => i < j

\* what order_moves does: the returned list holds the moves of the input list, a move
\* with a higher key precedes a move with a lower key, and moves with equal keys keep
\* the relative order of the input list
C32_StableByKey ==
    pcall.fn = "order_moves"
        => LET b == pcall.board
               r == pcall.result
               key(m) == move_score(b, m, pcall.pv_move)
           IN  /\ Len(r) = Len(pcall.moves) /\ Range(r) = Range(pcall.moves)
               /\ \A i, j \in 1 .. Len(r) :
                      i < j => \/ key(r[i]) > key(r[j])
                               \/ /\ key(r[i]) = key(r[j])
                                  /\ Place(pcall.moves, r[i]) < Place(pcall.moves, r[j])

RECURSIVE QsAlpha(_, _, _, _, _)
RECURSIVE QsScore(_, _, _, _, _)

\* alpha when the i-th tactical move of b is searched and no move before it cut off:
\* the highest of alpha, the stand-pat score and the scores of the moves before it
QsAlpha(b, alpha, beta, depth_left, i) ==
    IF i = 1 THEN Max(alpha, evaluate(b))
    ELSE Max(QsAlpha(b, alpha, beta, depth_left, i - 1),
             QsScore(b, alpha, beta, depth_left, i - 1))

\* the negated score of the child after the i-th tactical move of b
QsScore(b, alpha, beta, depth_left, i) ==
    -quiescence_search(push(b, order_moves(b, tactical_moves(b), None)[i]), -beta,
                       -QsAlpha(b, alpha, beta, depth_left, i), depth_left - 1)

\* the calls made for the child after the i-th tactical move of b
QsChildNodes(b, alpha, beta, depth_left, i) ==
    qsearch_nodes(push(b, order_moves(b, tactical_moves(b), None)[i]), -beta,
                  -QsAlpha(b, alpha, beta, depth_left, i), depth_left - 1)

RECURSIVE QsNodesUpTo(_, _, _, _, _)
QsNodesUpTo(b, alpha, beta, depth_left, k) ==
    IF k = 0 THEN 0
    ELSE QsNodesUpTo(b, alpha, beta, depth_left, k - 1)
             + QsChildNodes(b, alpha, beta, depth_left, k)

\* the tactical moves of the call whose child scores at least beta
QsCutoffs ==
    {i \in 1 .. Len(tactical_moves(pcall.board)) :
        QsScore(pcall.board, pcall.alpha, pcall.beta, pcall.depth, i) >= pcall.beta}

\* the call got as far as its loop over the tactical moves
QsLoopEntered ==
    /\ evaluate(pcall.board) < pcall.beta
    /\ pcall.depth >= QDepthFloor
    /\ tactical_moves(pcall.board) # <<>>

\* C33: with alpha < beta quiescence_search returns at most beta; it returns beta after
\* one call when the stand-pat score is at least beta; and when the negated score of a
\* searched tactical child is at least beta it returns beta having made calls for the
\* moves up to the first such child only
C33_QuiescenceCutoffReturnsBeta ==
    pcall.fn = "quiescence_search"
        => /\ pcall.result <= pcall.beta
           /\ evaluate(pcall.board) >= pcall.beta
                  => (pcall.result = pcall.beta /\ pcall.nodes = 1)
           /\ (QsLoopEntered /\ QsCutoffs # {})
                  => LET k == CHOOSE i \in QsCutoffs : \A j \in QsCutoffs : i <= j
                     IN  /\ pcall.result = pcall.beta
                         /\ pcall.nodes = 1 + QsNodesUpTo(pcall.board, pcall.alpha,
                                                          pcall.beta, pcall.depth, k)

\* C33: the child of the first of two tactical moves scored above beta, and the call
\* returned beta without a call for the second move
C33_Witness ==
    /\ pcall.fn = "quiescence_search"
    /\ QsLoopEntered
    /\ Len(tactical_moves(pcall.board)) = 2
    /\ QsScore(pcall.board, pcall.alpha, pcall.beta, pcall.depth, 1) > pcall.beta
    /\ pcall.result = pcall.beta
    /\ pcall.nodes = 1 + QsChildNodes(pcall.board, pcall.alpha, pcall.beta, pcall.depth, 1)

\* the quiescence_search calls that are running, one inside the other
QNesting == Cardinality({i \in 1 .. Len(stack) : stack[i].fn = "quiescence_search"})

\* quiescence_search passes its test of the stop signal with depth_left below the floor
BelowFloor ==
    /\ Running("quiescence_search", "entry")
    /\ Top.depth < QDepthFloor
    /\ ~should_stop

\* C34 as stated: at most 12 quiescence_search calls are nested, a call with
\* depth_left below the floor returns the stand-pat score and applies no move, and
\* every quiescence search comes to an end
C34_FloorReturnsStandPat ==
    /\ [](QNesting <= 12)
    /\ (QNesting > 0) ~> (QNesting = 0)
    /\ [][(BelowFloor /\ stack' # stack)
              => /\ stack' = Front(stack)
                 /\ board' = board
                 /\ ret'.score = evaluate(board)]_vars

\* C34 amended: at most 12 quiescence_search calls are nested, a call with
\* depth_left below the floor applies no move and returns the stand-pat score, or beta
\* when the stand-pat score is at least beta, and every quiescence search comes to an end
C34_QuiescenceNestingBounded ==
    /\ [](QNesting <= 12)
    /\ (QNesting > 0) ~> (QNesting = 0)
    /\ [][(BelowFloor /\ stack' # stack)
              => /\ stack' = Front(stack)
                 /\ board' = board
                 /\ ret'.score = (IF evaluate(board) >= Top.beta THEN Top.beta
                                  ELSE evaluate(board))]_vars

\* C34: twelve nested quiescence_search calls under alpha_beta, the innermost below the
\* floor on a position where a capture can be played
C34_Witness ==
    /\ QNesting = 12
    /\ BelowFloor
    /\ tactical_moves(board) # <<>>
    /\ \E i \in 1 .. (Len(stack) - 1) :
           /\ stack[i].fn = "alpha_beta"
           /\ stack[i + 1].fn = "quiescence_search" /\ stack[i + 1].depth = 0

\* the position is drawn, or the side to move has no move and is not in check
DrawnNode(b) ==
    \/ is_stalemate(b)
    \/ is_insufficient_material(b)
    \/ can_claim_draw(b)
    \/ get_legal_moves_with_forced_capture(b) = <<>> /\ ~is_check(b)

\* C35: at every depth and with every window alpha_beta returns the score 0 and no move
\* on a position that is a stalemate, has insufficient material or is a claimable draw,
\* and on one where the forced-capture-legal list is empty and the side to move is not
\* in check; such a position is not a checkmate
C35_DrawnNodeScoresZero ==
    (/\ pcall.fn = "alpha_beta"
     /\ DrawnNode(pcall.board)
     /\ ~is_checkmate(pcall.board))
        => pcall.result = [score |-> 0, move |-> None]

\* C35: alpha_beta was called to a depth of two plies or more, with a window that does
\* not hold 0, on a claimable draw in which moves can be played and whose evaluation
\* by material is not 0
C35_Witness ==
    /\ pcall.fn = "alpha_beta"
    /\ pcall.depth >= 2
    /\ pcall.alpha > 0
    /\ can_claim_draw(pcall.board)
    /\ get_legal_moves_with_forced_capture(pcall.board) # <<>>
    /\ total_score(pcall.board) # 0
    /\ pcall.result = [score |-> 0, move |-> None]

-----------------------------------------------------------------------------
(* Properties of the engine *)

\* the position make_move was last called on
Made == pcall.made[1]
\* make_move was called by the last command on a position with exactly one legal move
\* under the compulsory-capture rule
MadeOnlyMove ==
    /\ pcall.fn \in {"go", "usermove"}
    /\ pcall.made # <<>>
    /\ Len(get_legal_moves_with_forced_capture(Made)) = 1

\* that move was played and sent, and the search was not called
OnlyMovePlayed ==
    /\ ~pcall.searched
    /\ engine.pc = "idle"
    /\ id.pc = "idle"
    /\ stack = <<>>
    /\ board = push(Made, get_legal_moves_with_forced_capture(Made)[1])
    /\ engine.out # <<>>
    /\ engine.out[1] = <<"move", get_legal_moves_with_forced_capture(Made)[1]>>

\* C16 as stated: on a position with exactly one legal move under the compulsory-capture
\* rule make_move plays that move without calling the search
C16_OnlyMovePlayedWithoutSearch == MadeOnlyMove => OnlyMovePlayed

\* C16 amended: the same when the game is not over on that position; when it is over,
\* make_move plays no move and calls no search
C16_OnlyMovePlayedUnlessGameOver ==
    MadeOnlyMove
        => IF is_game_over(Made)
           THEN ~pcall.searched /\ engine.pc = "idle" /\ board = Made /\ engine.out = <<>>
           ELSE OnlyMovePlayed

\* C16: with no time left on the clock the engine played the only capture of a position
\* that has other legal moves
C16_Witness ==
    /\ MadeOnlyMove
    /\ OnlyMovePlayed
    /\ Len(legal_moves(Made)) > 1
    /\ engine.time_left = 0

\* the moves of b that the compulsory-capture rule allows: the legal captures if there
\* is one, every legal move otherwise
Allowed(b) ==
    LET legal == {legal_moves(b)[k] : k \in 1 .. Len(legal_moves(b))}
        captures == {m \in legal : is_capture(b, m)}
    IN  IF captures # {} THEN captures ELSE legal

\* C17: a move that the compulsory-capture rule does not allow is rejected: by
\* handle_usermove with the board unchanged, the message `Illegal move` and no reply of
\* the engine, and by play_move with the board unchanged and a ValueError
C17_DisallowedMoveRejected ==
    /\ (/\ pcall.fn = "usermove"
        /\ pcall.move # Unparsable
        /\ pcall.move \notin Allowed(pcall.board))
           => /\ board = pcall.board
              /\ engine.out = <<<<"Illegal move", pcall.move>>>>
              /\ pcall.made = <<>>
              /\ engine.pc = "idle"
              /\ id.pc = "idle"
    /\ (/\ pcall.fn = "play_move"
        /\ pcall.move \notin Allowed(pcall.board))
           => /\ board = pcall.board
              /\ pcall.raised # <<>>
              /\ pcall.raised[1] = "ValueError"

\* C17: the engine, about to reply, rejected a legal move that is no capture while a
\* capture was available
C17_Witness ==
    /\ pcall.fn = "usermove"
    /\ InList(pcall.move, legal_moves(pcall.board))
    /\ pcall.move \notin Allowed(pcall.board)
    /\ ~engine.force_mode
    /\ turn(push(pcall.board, pcall.move)) = engine.engine_color
    /\ board = pcall.board
    /\ engine.out = <<<<"Illegal move", pcall.move>>>>

\* C17: play_move refused a legal move that is no capture while a capture was available
C17_WitnessPlayMove ==
    /\ pcall.fn = "play_move"
    /\ InList(pcall.move, legal_moves(pcall.board))
    /\ pcall.move \notin Allowed(pcall.board)
    /\ pcall.raised = <<"ValueError", "Captures are available">>

\* C21 as stated: a stop signal that is set is not lost: stop_search is cleared only
\* after a should_stop() of the search has returned true
C21_StopSignalNotLost ==
    [][(searcher.stop_search /\ ~searcher'.stop_search) => searcher.observed > 0]_vars

\* the engine never takes a command while its search runs
C21_NoCommandDuringSearch ==
    [][engine.pc = "searching" => (engine'.force_mode = engine.force_mode
                                   /\ searcher'.stop_search = searcher.stop_search)]_vars

\* a top-level search starts
SearchStarts == id.pc = "idle" /\ id'.pc = "loop"

\* C26 as stated: every top-level search resets the statistics and advances the
\* generation of the transposition table by one, once, when it starts
C26_NewGenerationPerSearch ==
    [][/\ SearchStarts => /\ searcher'.stats = StatsReset
                           /\ tt'.current_age = tt.current_age + 1
       /\ ~SearchStarts => tt'.current_age = tt.current_age]_vars

\* every top-level search resets the statistics when it starts
C26_StatisticsReset ==
    [][SearchStarts => searcher'.stats = StatsReset]_vars

\* a second search started with the statistics of the first still standing
C26_SecondSearch ==
    /\ id.pc = "done"
    /\ engine.pc = "searching"
    /\ Len(board) > 0
    /\ searcher.stats.nodes_searched > 0

------------------------------------------------------------------------\* the 'move' messages among the messages sent
MovesSent(out) == Cardinality({k \in 1 .. Len(out) : out[k][1] = "move"})

\* the user's move is legal under the compulsory-capture rule, force mode is off and
\* the side to move after it is the engine's
ReplyDue(b, move, e) ==
    /\ InList(move, get_legal_moves_with_forced_capture(b))
    /\ ~e.force_mode
    /\ turn(push(b, move)) = e.engine_color

\* C36: a 'go' command clears force mode and makes the side to move the engine's; a
\* usermove makes the engine move or search only when the move is legal, force mode is
\* off and the side to move after it is the engine's, and never in force mode; the
\* other commands make it neither move nor search; a search ends in a move only for
\* the 'go' or the usermove that called it; and no command sends more than one 'move'
C36_MoveOnlyOnGoOrReply ==
    [][/\ (engine.pc = "idle" /\ pcall'.fn = "go")
              => /\ ~engine'.force_mode
                 /\ engine'.engine_color = turn(board)
                 /\ MovesSent(engine'.out) <= 1
       /\ (engine.pc = "idle" /\ pcall'.fn = "usermove")
              => /\ (MovesSent(engine'.out) >= 1 \/ engine'.pc = "searching")
                        => ReplyDue(board, pcall'.move, engine)
                 /\ MovesSent(engine'.out) <= 1
                 /\ engine.force_mode
                        => /\ MovesSent(engine'.out) = 0
                           /\ engine'.pc = "idle"
                           /\ board' \in {board, push(board, pcall'.move)}
       /\ (engine.pc = "idle" /\ pcall' = NoCall)
              => /\ MovesSent(engine'.out) = 0
                 /\ engine'.pc = "idle"
                 /\ board' = board
       /\ (engine.pc = "searching" /\ engine' # engine)
              => /\ pcall.fn \in {"go", "usermove"}
                 /\ pcall.searched
                 /\ ~engine.force_mode
                 /\ engine.engine_color = turn(Made)
                 /\ pcall.fn = "usermove" => ReplyDue(pcall.board, pcall.move, engine)
                 /\ MovesSent(engine.out) = 0
                 /\ MovesSent(engine'.out) = 1
                 /\ engine'.pc = "idle"
                 /\ \E m \in ForcedMoves(Made) : board' = push(Made, m)]_vars

\* C36: in force mode a legal usermove went unanswered although the side to move after
\* it is the engine's
C36_ForceModeSilent ==
    /\ engine.pc = "idle"
    /\ engine.force_mode
    /\ pcall.fn = "usermove"
    /\ board = push(pcall.board, pcall.move)
    /\ turn(board) = engine.engine_color
    /\ get_legal_moves_with_forced_capture(board) # <<>>
    /\ ~is_game_over(board)
    /\ engine.out = <<>>

\* C36: the engine answered a legal usermove with one move that it searched for
C36_Witness ==
    /\ engine.pc = "idle"
    /\ pcall.fn = "usermove"
    /\ pcall.searched
    /\ MovesSent(engine.out) = 1
    /\ Len(board) = Len(pcall.board) + 2

\* make_move on position b of the board pushes one forced-capture-legal move of b, or
\* nothing when the game is over or there is no legal move
MakeMovePushes(b) ==
    IF is_game_over(b) \/ get_legal_moves_with_forced_capture(b) = <<>>
    THEN board' = b
    ELSE \/ board' = b /\ engine'.pc = "searching"
         \/ \E m \in ForcedMoves(b) : board' = push(b, m)

\* C37: a move pushed by handle_usermove is a forced-capture-legal move of the board it
\* is pushed on; make_move pushes nothing when the game is over or no move is legal and
\* otherwise a forced-capture-legal move of the board, at once or when its search
\* ends, also when the search returned no move and legal_moves[0] is played
C37_PushedMovesAreForcedLegal ==
    [][/\ (engine.pc = "idle" /\ pcall'.fn = "go") => MakeMovePushes(board)
       /\ (engine.pc = "idle" /\ pcall'.fn = "usermove")
              => \/ board' = board /\ ~InList(pcall'.move, get_legal_moves_with_forced_capture(board))
                 \/ /\ pcall'.move \in ForcedMoves(board)
                    /\ \/ board' = push(board, pcall'.move) /\ pcall'.made = <<>>
                       \/ /\ pcall'.made = <<push(board, pcall'.move)>>
                          /\ MakeMovePushes(push(board, pcall'.move))
       /\ (engine.pc = "searching" /\ engine'.pc = "idle")
              => /\ board = Made
                 /\ \E m \in ForcedMoves(board) : board' = push(board, m)
                 /\ pcall'.fallback
                        => board' = push(board, get_legal_moves_with_forced_capture(board)[1])]_vars

\* C37: the search returned no move and make_move played the first of several
\* forced-capture-legal moves
C37_Witness ==
    /\ engine.pc = "idle"
    /\ pcall.fn \in {"go", "usermove"}
    /\ pcall.searched
    /\ pcall.fallback
    /\ Len(get_legal_moves_with_forced_capture(Made)) >= 2
    /\ board = push(Made, get_legal_moves_with_forced_capture(Made)[1])

-----
(* Properties of the transposition table *)

\* the bound of an entry with this type and score lets the score be used in the window
Compatible(entry_type, score, alpha, beta) ==
    \/ entry_type = EXACT
    \/ entry_type = LOWER_BOUND /\ score >= beta
    \/ entry_type = UPPER_BOUND /\ score <= alpha

\* C6: probe returns a score exactly when the table has an entry for the position that
\* is at least as deep as asked and whose bound is compatible with the window, and the
\* score it returns is the score of that entry
C6_ProbeScoreIffUsable ==
    ttcall.fn = "probe"
        => LET e == EntryOf(tt, ttcall.board)
               ok == /\ e # <<>>
                     /\ e[1].depth >= ttcall.depth
                     /\ Compatible(e[1].entry_type, e[1].score, ttcall.alpha, ttcall.beta)
           IN  /\ ttcall.score # NoValue <=> ok
               /\ ok => ttcall.score = Some(e[1].score)

\* C6: a probe answered with the score of a lower bound that reaches beta
C6_Witness ==
    /\ ttcall.fn = "probe"
    /\ ttcall.score # NoValue
    /\ EntryOf(tt, ttcall.board)[1].entry_type = LOWER_BOUND
    /\ ttcall.beta < INF

\* a store on a position without entry inserts the entry; a store on a position with an
\* entry replaces it when the new depth is at least the stored depth or the stored entry
\* is at least min_age generations old, and leaves the table as it is otherwise
StorePolicy(min_age) ==
    ttcall'.fn = "store"
        => LET c == ttcall'
               entry == TTEntry(zobrist_hash(c.board), c.depth, c.score, c.entry_type,
                                c.best_move, tt.current_age)
               existing == EntryOf(tt, c.board)
           IN  IF existing = <<>> THEN EntryOf(tt', c.board) = <<entry>>
               ELSE IF \/ c.depth >= existing[1].depth
                       \/ tt.current_age - existing[1].age >= min_age
                    THEN EntryOf(tt', c.board) = <<entry>>
                    ELSE tt' = tt

\* C7 as stated: a stored entry gives way to a shallower one only when it is more than
\* SweepAge generations old
C7_ReplacedWhenOlderThanSweepAge == [][StorePolicy(SweepAge + 1)]_vars

\* C7 amended: a store on a position without entry inserts it; a store on a position
\* with an entry replaces it if and only if the new depth is at least the stored depth or
\* the stored entry is at least FreshAge = 2 generations old; otherwise the table is
\* unchanged
C7_ReplacedWhenNotFresh == [][StorePolicy(FreshAge)]_vars

\* C7: a shallower store replaced an entry two generations old
C7_Witness ==
    /\ ttcall.fn = "store"
    /\ ttcall.existing # <<>>
    /\ ttcall.depth < ttcall.existing[1].depth
    /\ ttcall.age - ttcall.existing[1].age = FreshAge
    /\ EntryOf(tt, ttcall.board)[1].depth = ttcall.depth

\* a probe follows a store on the same position, at most as deep, with a window
\* compatible with the stored bound
ProbeAfterStore ==
    /\ ttcall.fn = "store"
    /\ ttcall'.fn = "probe"
    /\ ttcall'.board = ttcall.board
    /\ ttcall'.depth <= ttcall.depth
    /\ Compatible(ttcall.entry_type, ttcall.score, ttcall'.alpha, ttcall'.beta)

\* the store found an entry that it had to keep
Refused(c) ==
    /\ c.existing # <<>>
    /\ c.depth < c.existing[1].depth
    /\ c.age - c.existing[1].age < FreshAge

\* C8 as stated: a probe right after a store returns the score that was stored
C8_ProbeReturnsStoredScore ==
    [][ProbeAfterStore => ttcall'.score = Some(ttcall.score)]_vars

\* C8 amended: a probe right after a store returns the score that was stored unless the
\* store found a deeper entry less than FreshAge generations old, and then it answers
\* from that entry: its score if it is usable for the probe, and no score otherwise
C8_ProbeReturnsWrittenScore ==
    [][ProbeAfterStore
          => IF ~Refused(ttcall) THEN ttcall'.score = Some(ttcall.score)
             ELSE LET e == ttcall.existing[1]
                  IN  ttcall'.score =
                          (IF e.depth >= ttcall'.depth
                              /\ Compatible(e.entry_type, e.score, ttcall'.alpha, ttcall'.beta)
                           THEN Some(e.score) ELSE NoValue)]_vars

\* C8: a probe returned the score of a store that had replaced an entry with another
\* score
C8_Witness ==
    /\ ttcall.fn = "probe"
    /\ ttcall.score # NoValue
    /\ ttcall.after_store # <<>>
    /\ ttcall.after_store[1].existing # <<>>
    /\ ttcall.after_store[1].existing[1].score # ttcall.after_store[1].score
    /\ ttcall.score = Some(ttcall.after_store[1].score)

\* C27: new_search adds 1 to current_age; when the new current_age is a multiple of 100
\* it removes the entries whose age is more than 10 less than it and keeps the others as
\* they are, and when it is not, the entries are unchanged
C27_NewSearchAgesAndSweeps ==
    [][ttcall'.fn = "new_search"
          => /\ tt'.current_age = tt.current_age + 1
             /\ LET Kept(e) == (tt.current_age + 1) - e.age <= 10
                IN  IF (tt.current_age + 1) % 100 = 0
                    THEN tt'.table = SelectSeq(tt.table, Kept)
                    ELSE tt'.table = tt.table]_vars

\* C27: a cleaning removed an entry 11 generations old and kept one 10 generations old
C27_Witness ==
    /\ ttcall.fn = "new_search"
    /\ tt.current_age % 100 = 0
    /\ tt.current_age > 0
    /\ \E a \in ttcall.removed : tt.current_age - a = 11
    /\ \E i \in 1 .. Len(tt.table) : tt.current_age - tt.table[i].age = 10

\* the entries of the table t
Entries(t) == {t.table[i] : i \in 1 .. Len(t.table)}

\* C28: a store that leaves n entries, more than max_entries, once its entry is written
\* removes n \div 10 of them, and no entry that it removes is younger than one that stays
C28_EvictsOldestTenth ==
    [][ttcall'.fn = "store"
          => LET c == ttcall'
                 key == zobrist_hash(c.board)
                 old == EntryOf(tt, c.board)
                 skipped == /\ old # <<>>
                            /\ c.depth < old[1].depth
                            /\ tt.current_age - old[1].age < 2
                 written == {e \in Entries(tt) : e.zobrist_key # key}
                                \cup {[zobrist_key |-> key, depth |-> c.depth,
                                       score |-> c.score, entry_type |-> c.entry_type,
                                       best_move |-> c.best_move, age |-> tt.current_age]}
                 n == IF old = <<>> THEN Len(tt.table) + 1 ELSE Len(tt.table)
                 removed == written \ Entries(tt')
             IN  (~skipped /\ n > tt.max_entries)
                    => /\ Entries(tt') \subseteq written
                       /\ Len(tt'.table) = n - (n \div 10)
                       /\ \A r \in removed : \A k \in Entries(tt') : r.age <= k.age]_vars

\* C28: a store removed an entry of the first generation from a table whose first entry
\* was younger, and entries of the first generation stay
C28_Witness ==
    /\ ttcall.fn = "store"
    /\ ttcall.existing = <<>>
    /\ ttcall.evicted = {0}
    /\ Len(tt.table) > tt.max_entries
    /\ tt.table[1].age > 0
    /\ \E i \in 1 .. Len(tt.table) : tt.table[i].age = 0

\* C29 as stated: after every store the table holds at most max_entries entries
C29_WithinCapacity ==
    ttcall.fn = "store" => Len(tt.table) <= tt.max_entries

\* C29 amended: after every store the table holds at most max_entries entries, or at
\* most 9: a table of fewer than 10 entries loses none
C29_WithinCapacityOrNine ==
    ttcall.fn = "store" => (Len(tt.table) <= tt.max_entries \/ Len(tt.table) <= 9)

\* C29: a store to a full table of capacity 0 wrote a tenth entry and removed one
C29_Witness ==
    /\ ttcall.fn = "store"
    /\ ttcall.existing = <<>>
    /\ ttcall.evicted # {}
    /\ tt.max_entries = 0
    /\ Len(tt.table) = 9

\* C30: probe returns no score and the move of the entry when the position has an entry
\* that is not deep enough or whose bound does not fit the window, no score and no move
\* when the position has no entry, and leaves every entry of the table as it is
C30_ProbeHintAndNoChange ==
    [][ttcall'.fn = "probe"
          => LET c == ttcall'
                 e == EntryOf(tt, c.board)
                 unusable == \/ e[1].depth < c.depth
                             \/ ~Compatible(e[1].entry_type, e[1].score, c.alpha, c.beta)
             IN  /\ tt'.table = tt.table
                 /\ e = <<>> => (c.score = NoValue /\ c.move = None)
                 /\ (e # <<>> /\ unusable) => (c.score = NoValue /\ c.move = e[1].best_move)]_vars

\* C30: a probe deeper than the entry of the position returned the move of the entry
\* and no score
C30_Witness ==
    /\ ttcall.fn = "probe"
    /\ ttcall.score = NoValue
    /\ ttcall.move # None
    /\ EntryOf(tt, ttcall.board) # <<>>
    /\ EntryOf(tt, ttcall.board)[1].depth < ttcall.depth
    /\ EntryOf(tt, ttcall.board)[1].best_move = ttcall.move

-----------------------------------------------------------------------------
(* Properties of minimax *)

\* C9 as stated: whatever earlier calls left in the shared table, minimax returns the
\* score that it returns on an empty table
C9_CacheIsAdvisory ==
    mmcall.fn = "minimax"
        => mmcall.score = minimax(Transposition_Table, mmcall.board, mmcall.depth,
                                  mmcall.alpha, mmcall.beta, mmcall.max_player).score

RECURSIVE minimax_value(_, _, _)
RECURSIVE minimax_value_best(_, _, _, _, _)

\* the minimax value of b to `depth` with no window and no table: evaluate(b) at the
\* horizon and when the game is over, the best child value for the side to move otherwise
minimax_value(b, depth, max_player) ==
    IF depth = 0 \/ is_game_over(b) THEN evaluate(b)
    ELSE IF forced_legal_moves(b) = <<>>
         THEN (IF max_player THEN -INF_FLOAT ELSE INF_FLOAT)
         ELSE minimax_value_best(b, depth, max_player, forced_legal_moves(b), 1)

minimax_value_best(b, depth, max_player, moves, i) ==
    LET v == minimax_value(push(b, moves[i]), depth - 1, ~max_player)
    IN  IF i = Len(moves) THEN v
        ELSE IF max_player THEN Max(v, minimax_value_best(b, depth, max_player, moves, i + 1))
        ELSE Min(v, minimax_value_best(b, depth, max_player, moves, i + 1))

\* the entry bounds the value v in the way its flag says
SoundBound(entry, v) ==
    /\ entry.flag = "UPPERBOUND" => v <= entry.score
    /\ entry.flag = "LOWERBOUND" => v >= entry.score
    /\ entry.flag = "EXACT" => v = entry.score

\* every entry in the table bounds the minimax value of its position to its depth
EntriesSound ==
    \A b \in Boards(<<>>, MaxPly) :
        lookup(TT, b) # <<>>
            => SoundBound(lookup(TT, b)[1],
                          minimax_value(b, lookup(TT, b)[1].depth, turn(b) = WHITE))

\* C19 as stated: the flag that minimax stores is UPPERBOUND for a score of at most the
\* alpha it was entered with, LOWERBOUND for a score of at least the beta it was entered
\* with and EXACT otherwise, and every entry in the table bounds, in the way its flag
\* says, the minimax value of its position to the depth of the entry
C19_StoredEntriesAreSoundBounds ==
    /\ (mmcall.fn = "minimax" /\ mmcall.flag # "none")
          => mmcall.flag = (IF mmcall.score <= mmcall.alpha THEN "UPPERBOUND"
                            ELSE IF mmcall.score >= mmcall.beta THEN "LOWERBOUND"
                            ELSE "EXACT")
    /\ EntriesSound

\* the entries that one call of minimax leaves in an empty table are sound bounds
C19_SoundOnEmptyTable ==
    (/\ mmcall.fn = "minimax"
     /\ TT = minimax(Transposition_Table, mmcall.board, mmcall.depth, mmcall.alpha,
                     mmcall.beta, mmcall.max_player).T)
        => EntriesSound

\* the entry in the slot that the key of b addresses, <<>> when the slot is empty
Slot(b) == TT[index(zobrist_hash(b))]

\* the slot that the key of b addresses holds an entry written under another key
IndexCollision(b) == Slot(b) # <<>> /\ Slot(b)[1].key # zobrist_hash(b)

\* C31: a lookup returns None or an entry whose key is the key of the position looked
\* up, it returns None when the slot addressed by the key holds an entry with another
\* key, and a minimax call that found such an entry in the slot of its position did not
\* answer from the table
C31_CollisionIsMiss ==
    /\ \A b \in Boards(<<>>, MaxPly) :
           /\ lookup(TT, b) # <<>> => lookup(TT, b)[1].key = zobrist_hash(b)
           /\ IndexCollision(b) => lookup(TT, b) = <<>>
    /\ (/\ mmcall.fn = "minimax"
        /\ mmcall.depth > 0
        /\ ~is_game_over(mmcall.board)
        /\ mmcall.slot # <<>>
        /\ mmcall.slot[1].key # zobrist_hash(mmcall.board))
           => mmcall.flag # "none"

\* C31: minimax was called on a position whose slot held an entry of another position
\* that was deep enough to answer the call, and it searched the position
C31_Witness ==
    /\ mmcall.fn = "minimax"
    /\ mmcall.depth > 0
    /\ ~is_game_over(mmcall.board)
    /\ mmcall.slot # <<>>
    /\ mmcall.slot[1].key # zobrist_hash(mmcall.board)
    /\ mmcall.slot[1].depth >= mmcall.depth
    /\ mmcall.flag # "none"

-----------------------------------------------------------------------------
(* Properties of the pure functions *)

FullScore == alpha_beta(pcall.board, pcall.depth, -INF, INF, None).score

\* C2 as stated: with any window alpha_beta returns the score of the unbounded window
C2_WindowIndependent ==
    pcall.fn = "alpha_beta" => pcall.result.score = FullScore

\* C2 amended: alpha_beta returns the score of the unbounded window whenever that score
\* lies strictly inside the window; otherwise it returns a score on the same side of the
\* window: at most alpha when the full score is at most alpha, at least beta when the
\* full score is at least beta
C2_WindowBracketsScore ==
    pcall.fn = "alpha_beta"
        => /\ (pcall.alpha < FullScore /\ FullScore < pcall.beta)
                  => pcall.result.score = FullScore
           /\ FullScore <= pcall.alpha => pcall.result.score <= pcall.alpha
           /\ FullScore >= pcall.beta => pcall.result.score >= pcall.beta

\* C2: a search two plies deep over several moves with a narrow window around the score
C2_Witness ==
    /\ pcall.fn = "alpha_beta"
    /\ pcall.depth >= 2
    /\ Len(get_legal_moves_with_forced_capture(pcall.board)) >= 2
    /\ pcall.alpha > -INF /\ pcall.beta < INF
    /\ pcall.alpha < FullScore /\ FullScore < pcall.beta
    /\ FullScore # 0
    /\ pcall.result.score = FullScore

\* C3 as stated: at a quiet position with Black to move quiescence_search returns the
\* negation of the White-relative evaluate(board)
C3_MoverRelativeScore ==
    (/\ pcall.fn = "quiescence_search"
     /\ pcall.alpha = -INF /\ pcall.beta = INF
     /\ tactical_moves(pcall.board) = <<>>
     /\ turn(pcall.board) = BLACK)
        => pcall.result = -evaluate(pcall.board)

\* the checkmated positions that a search n plies deep from b can reach
Mates(b, n) == {c \in Boards(b, n) : is_checkmate(c)}

\* the score, for the side that gave mate, of the checkmated position c when the search
\* from b to the given depth reaches it
WinnerScore(b, depth, c) == -alpha_beta(c, depth - (Len(c) - Len(b)), -INF, INF, None).score

MatingCaptures(b) ==
    {m \in ForcedMoves(b) : is_capture(b, m) /\ is_checkmate(push(b, m))}

\* C12 as stated: on a position with a forced-capture-legal capture that checkmates,
\* alpha_beta at depth 2 or more with the full window returns a move after which the
\* opponent is checkmated and a score above the mate threshold in absolute value
C12_MatingCaptureReturned ==
    (/\ pcall.fn = "alpha_beta"
     /\ pcall.depth >= 2
     /\ pcall.alpha = -INF /\ pcall.beta = INF
     /\ MatingCaptures(pcall.board) # {})
        => /\ pcall.result.move # None
           /\ is_checkmate(push(pcall.board, pcall.result.move))
           /\ Abs(pcall.result.score) > MateThreshold

\* C12, what the code does: on a position that is not drawn and has a mating capture
\* alpha_beta at depth 2 or more returns a move and a score above the mate threshold; the
\* move is a mating move unless another move leads to a checkmate that quiescence_search
\* scores with the 30000 of evaluate, more than any mate score of alpha_beta
C12_MateScoreReturned ==
    (/\ pcall.fn = "alpha_beta"
     /\ pcall.depth >= 2
     /\ pcall.alpha = -INF /\ pcall.beta = INF
     /\ ~Drawn(pcall.board)
     /\ MatingCaptures(pcall.board) # {})
        => /\ pcall.result.move # None
           /\ pcall.result.score > MateThreshold
           /\ \/ is_checkmate(push(pcall.board, pcall.result.move))
              \/ pcall.result.score = MATE

\* no forced-capture-legal move of b is a capture or gives check
Quiet(b) == \A m \in ForcedMoves(b) : ~is_capture(b, m) /\ ~is_check(push(b, m))

\* C13: on a quiet position quiescence_search with the full window returns evaluate(p)
\* for every depth_left, and visits no node but its own: no move is applied and searched
C13_QuietPositionStandsPat ==
    (/\ pcall.fn = "quiescence_search"
     /\ pcall.alpha = -INF /\ pcall.beta = INF
     /\ Quiet(pcall.board))
        => /\ pcall.result = evaluate(pcall.board)
           /\ pcall.nodes = 1

\* C13: a quiet position with several moves and a score other than 0, searched with depth
\* left above the floor
C13_Witness ==
    /\ pcall.fn = "quiescence_search"
    /\ pcall.alpha = -INF /\ pcall.beta = INF
    /\ Quiet(pcall.board)
    /\ Len(get_legal_moves_with_forced_capture(pcall.board)) >= 2
    /\ pcall.depth >= QDepthFloor
    /\ pcall.result = evaluate(pcall.board)
    /\ pcall.result # 0

RECURSIVE negamax(_, _)
RECURSIVE negamax_best(_, _, _, _)

\* the value of b by exhaustive negamax to `depth`: every move of every position is
\* searched; the terminal scores and the value at the horizon are those of alpha_beta
negamax(b, depth) ==
    IF is_checkmate(b) THEN (-MATE) + (MateBias - depth)
    ELSE IF Drawn(b) THEN 0
    ELSE IF depth <= 0 THEN quiescence_search(b, -INF, INF, 0)
    ELSE LET moves == get_legal_moves_with_forced_capture(b)
         IN  IF moves = <<>> THEN (IF is_check(b) THEN (-MATE) + (MateBias - depth) ELSE 0)
             ELSE negamax_best(b, depth, moves, 1)

\* the largest negated child value among moves[i], moves[i + 1], ...
negamax_best(b, depth, moves, i) ==
    LET score == -negamax(push(b, moves[i]), depth - 1)
    IN  IF i = Len(moves) THEN score
        ELSE Max(score, negamax_best(b, depth, moves, i + 1))

\* alpha_beta loops over the moves of b: b is no terminal position and depth is left
Searched(b, depth) ==
    /\ ~is_checkmate(b) /\ ~Drawn(b)
    /\ depth > 0
    /\ get_legal_moves_with_forced_capture(b) # <<>>

\* C18: alpha_beta with the full window returns the value of exhaustive negamax to the
\* same depth, and the move it returns is a move of the root whose negated child value
\* is that value; it returns a move whenever it loops over the moves of the root
C18_FullWindowIsNegamax ==
    (pcall.fn = "alpha_beta" /\ pcall.alpha = -INF /\ pcall.beta = INF)
        => /\ pcall.result.score = negamax(pcall.board, pcall.depth)
           /\ Searched(pcall.board, pcall.depth) => pcall.result.move # None
           /\ pcall.result.move # None
                 => /\ InList(pcall.result.move,
                              get_legal_moves_with_forced_capture(pcall.board))
                    /\ -negamax(push(pcall.board, pcall.result.move), pcall.depth - 1)
                           = pcall.result.score

\* C18: a search of two plies in which the second move of the root is cut off: its
\* child returns a bound that is not the child's value
C18_Witness ==
    /\ pcall.fn = "alpha_beta"
    /\ pcall.alpha = -INF /\ pcall.beta = INF
    /\ pcall.depth = 2
    /\ Searched(pcall.board, pcall.depth)
    /\ pcall.result.score # 0
    /\ LET moves == order_moves(pcall.board,
                                get_legal_moves_with_forced_capture(pcall.board), None)
           first == -negamax(push(pcall.board, moves[1]), 1)
       IN  /\ Len(moves) >= 2
           /\ Len(get_legal_moves_with_forced_capture(push(pcall.board, moves[2]))) >= 2
           /\ alpha_beta(push(pcall.board, moves[2]), 1, -INF, -first, None).score
                  # negamax(push(pcall.board, moves[2]), 1)

\* C10: both filters return the capturing legal moves, each once and in the order of
\* the legal moves, when there is one, and all legal moves otherwise
C10_ForcedCaptureFilter ==
    pcall.fn = "get_legal_moves_with_forced_capture"
        => LET legal == legal_moves(pcall.board)
               captures == {m \in Range(legal) : is_capture(pcall.board, m)}
               Correct(r) ==
                   /\ Range(r) = (IF captures # {} THEN captures ELSE Range(legal))
                   /\ Len(r) = Cardinality(Range(r))
                   /\ \A i, j \in 1 .. Len(r) : i < j => r[i] < r[j]
                   /\ Range(r) \subseteq Range(legal)
                   /\ (r = <<>> <=> legal = <<>>)
                   /\ (\A m \in Range(r) : is_capture(pcall.board, m))
                          \/ (\A m \in Range(r) : ~is_capture(pcall.board, m))
           IN  Correct(pcall.result) /\ Correct(pcall.result_forced_chess)

\* C10: a position with a capture and a non-capture among its legal moves
C10_Witness ==
    /\ pcall.fn = "get_legal_moves_with_forced_capture"
    /\ \E m \in Range(legal_moves(pcall.board)) : is_capture(pcall.board, m)
    /\ \E m \in Range(legal_moves(pcall.board)) : ~is_capture(pcall.board, m)
    /\ Len(pcall.result) < Len(legal_moves(pcall.board))

====
